---- MODULE Spec2Model ----
(***************************************************************************)
(* The synchronisation endpoint of tripcraft-backend, POST /api/sync       *)
(* (app/api/sync.py, sync_data), over the tables of app/models/trip.py.    *)
(*                                                                         *)
(* One call of sync_data is one action, SyncCall: the five upload loops    *)
(* (trips, days, activities, budget items, notes), the single commit, the  *)
(* delta queries and the response.  The ORM session of the call is the     *)
(* record threaded through the Process* operators.                         *)
(***************************************************************************)
EXTENDS Integers, Sequences, FiniteSets, TLC

VARIABLES
    db,        \* the committed tables: trips, days, activities, budget_items, notes
    now,       \* the server clock, datetime.utcnow()
    calls,     \* number of sync calls made so far
    caller,    \* current_user.id of the last call
    req,       \* the SyncRequest of the last call
    resp,      \* the SyncResponse of the last call (or the failure of the call)
    dbBefore,  \* the committed tables as the last call found them
    resent,    \* the last call repeated the request of the call before it
    hist,      \* the calls made so far, where a behaviour keeps them
    flight     \* the calls in progress, where calls run concurrently

vars == <<db, now, calls, caller, req, resp, dbBefore, resent, hist, flight>>

-----------------------------------------------------------------------------
(* Bounds of the model. *)

\* Client timestamps are drawn from 1..MaxTs.
MaxTs == 3

\* Number of requests the clients make in one behaviour (each may be sent
\* twice).
MaxCalls == 1

\* Number of calls in a behaviour that keeps the history of its calls.
MaxSeq == 3

\* Number of updates delivered in a behaviour that compares delivery orders.
MaxDeliveries == 2

-----------------------------------------------------------------------------
(* Values. *)

\* Python's None, as an optional field of a sync record carries it.
None == "None"

Users == {"A", "B"}

\* Names of the five entity kinds, as the response's counters and
\* server_data name them.
Kinds == {"trips", "days", "activities", "budget_items", "notes"}

\* An id that is no UUID: session.get and uuid.UUID raise on it.
BadId == "not-a-uuid"

IsUuid(id) == id # BadId

\* Python truthiness of an optional wire value, for "x or default".
Falsy == {None, "", "0", "0.0", "False"}

PyOr(v, default) == IF v \in Falsy THEN default ELSE v

\* A sparse field: "if data.f is not None: obj.f = data.f".
Patch(incoming, stored) == IF incoming # None THEN incoming ELSE stored

-----------------------------------------------------------------------------
(* Timestamps.  A client timestamp is a string, here its syntactic form    *)
(* and the instant it denotes; a datetime is an instant and whether it is  *)
(* timezone-aware.                                                         *)

TsForms == {"iso", "isoZ", "legacy", "bad"}

Ts(form, t) == [form |-> form, t |-> t]

\* None where a timestamp string is optional (last_sync_at).
NoTs == Ts("none", 0)

Naive(t) == [t |-> t, aware |-> FALSE]

\* _parse_timestamp: ISO with 'T' (a trailing Z gives an aware datetime),
\* else "%Y-%m-%d %H:%M:%S"; any failure gives utcnow().
_parse_timestamp(ts_str, clock) ==
    CASE ts_str.form = "iso"    -> [t |-> ts_str.t, aware |-> FALSE]
      [] ts_str.form = "isoZ"   -> [t |-> ts_str.t, aware |-> TRUE]
      [] ts_str.form = "legacy" -> [t |-> ts_str.t, aware |-> FALSE]
      [] OTHER                  -> [t |-> clock, aware |-> FALSE]

\* datetime.isoformat(): an aware datetime prints its offset.
isoformat(dt) == [form |-> IF dt.aware THEN "isoZ" ELSE "iso", t |-> dt.t]

\* The comparison with ">=" for ">": a tie of the two timestamps would then
\* count as a newer write.
DtGreaterOrEqual(a, b) ==
    IF a.aware # b.aware THEN "raise"
    ELSE IF a.t >= b.t THEN "yes" ELSE "no"

\* client_dt > server_timestamp on datetimes: comparing an aware with a
\* naive datetime raises TypeError.
DtGreater(a, b) ==
    IF a.aware # b.aware THEN "raise"
    ELSE IF a.t > b.t THEN "yes" ELSE "no"

Strategies == {"server_wins", "client_wins", "newer_wins", "merge"}

\* The evaluator without its server_wins branch: server_wins would then fall
\* to the comparison of the timestamps.
_should_update_without_server_wins(client_timestamp, server_timestamp, strategy, clock) ==
    LET client_dt == _parse_timestamp(client_timestamp, clock) IN
    CASE strategy = "client_wins" -> "yes"
      [] OTHER -> IF client_dt.aware # server_timestamp.aware THEN "raise"
                  ELSE IF client_dt.t > server_timestamp.t THEN "yes" ELSE "no"

\* The evaluator with a merge that always takes the client's data.
_should_update_merging_always(client_timestamp, server_timestamp, strategy, clock) ==
    LET client_dt == _parse_timestamp(client_timestamp, clock) IN
    CASE strategy = "client_wins" -> "yes"
      [] strategy = "server_wins" -> "no"
      [] strategy = "newer_wins"  -> DtGreater(client_dt, server_timestamp)
      [] strategy = "merge"       -> "yes"
      [] OTHER                    -> "no"

\* _should_update, for an existing record (server_timestamp is a non-null
\* column, so the "not server_timestamp" branch is the creation path, which
\* the callers take without calling it).  "yes", "no" or "raise".
_should_update(client_timestamp, server_timestamp, strategy, clock) ==
    LET client_dt == _parse_timestamp(client_timestamp, clock) IN
    CASE strategy = "client_wins" -> "yes"
      [] strategy = "server_wins" -> "no"
      [] strategy = "newer_wins"  -> DtGreater(client_dt, server_timestamp)
      [] strategy = "merge"       -> DtGreater(client_dt, server_timestamp)
      [] OTHER                    -> "no"

-----------------------------------------------------------------------------
(* The tables.  A table is a function from the ids of its rows to the      *)
(* rows; session.get(Model, id) is a lookup in it.                         *)

Exists(tbl, id) == id \in DOMAIN tbl

Put(tbl, id, row) ==
    [x \in (DOMAIN tbl) \cup {id} |-> IF x = id THEN row ELSE tbl[x]]

\* A delete that removes nothing.
RemoveNothing(tbl, ids) == tbl

Remove(tbl, ids) == [x \in (DOMAIN tbl) \ ids |-> tbl[x]]

EmptyTable == [x \in {} |-> None]

\* The session of one call: the tables as the call's transaction sees them
\* (every session.get by a string id misses the identity map, so it
\* autoflushes and reads the transaction's own writes), the counters and the
\* conflict list of the response being built, and the state of the flush.
\*   pending_bad: an INSERT that violates a constraint is staged, not flushed
\*   broken:      a flush has failed; the transaction is rolled back and every
\*                further use of the session raises
NewSession(tables) ==
    [trips |-> tables.trips, days |-> tables.days,
     activities |-> tables.activities, budget_items |-> tables.budget_items,
     notes |-> tables.notes,
     up |-> [k \in Kinds |-> 0],
     conflicts |-> <<>>,
     pending_bad |-> FALSE,
     broken |-> FALSE]

Uploaded(S, kind) == [S EXCEPT !.up[kind] = @ + 1]

\* session.get(Model, data.id): the autoflush that precedes the SELECT raises
\* when a staged INSERT is invalid, and from then on the session raises on
\* every use; a malformed id raises in the lookup.  "ok" when the lookup
\* returns (a row or None).
Lookup(S, id) ==
    IF S.broken THEN "raise"
    ELSE IF S.pending_bad THEN "flush_error"
    ELSE IF ~IsUuid(id) THEN "raise"
    ELSE "ok"

\* ON DELETE CASCADE of the foreign keys days.trip_id, budget_items.trip_id,
\* notes.trip_id and activities.day_id.
DaysOfTrip(S, trip_id) == {d \in DOMAIN S.days : S.days[d].trip_id = trip_id}

ActivitiesOfDays(S, day_ids) ==
    {a \in DOMAIN S.activities : S.activities[a].day_id \in day_ids}

DeleteDay(S, day_id) ==
    [S EXCEPT !.days = Remove(@, {day_id}),
              !.activities = Remove(@, ActivitiesOfDays(S, {day_id}))]

\* A delete of the trip's row alone, as without the foreign keys' cascade.
DeleteTripWithoutCascade(S, trip_id) ==
    [S EXCEPT !.trips = Remove(@, {trip_id})]

DeleteTrip(S, trip_id) ==
    LET ds == DaysOfTrip(S, trip_id) IN
    [S EXCEPT !.trips = Remove(@, {trip_id}),
              !.days = Remove(@, ds),
              !.activities = Remove(@, ActivitiesOfDays(S, ds)),
              !.budget_items =
                  Remove(@, {b \in DOMAIN S.budget_items :
                                S.budget_items[b].trip_id = trip_id}),
              !.notes =
                  Remove(@, {n \in DOMAIN S.notes : S.notes[n].trip_id = trip_id})]

-----------------------------------------------------------------------------
(* Trips (sync.py 290-362).  The table Trip of models/trip.py has no       *)
(* column or field "preferences": the constructor ignores the keyword,     *)
(* assigning trip.preferences raises ValueError and reading it raises      *)
(* AttributeError.                                                         *)

\* "Apply updates": the assignments in the order of the code.  The assignment
\* of preferences raises, after title .. budget have been written to the row
\* and before is_generated, local_updated_at, is_synced and the counter.
UpdateTrip(S, trip_data, clock) ==
    LET trip == S.trips[trip_data.id]
        t5 == [trip EXCEPT
                 !.title = Patch(trip_data.title, @),
                 !.destination = Patch(trip_data.destination, @),
                 !.start_date = Patch(trip_data.start_date, @),
                 !.end_date = Patch(trip_data.end_date, @),
                 !.budget = Patch(trip_data.budget, @)]
    IN  IF trip_data.preferences # None
        THEN [S EXCEPT !.trips[trip_data.id] = t5]
        ELSE Uploaded(
               [S EXCEPT !.trips[trip_data.id] =
                   [t5 EXCEPT
                      !.is_generated = Patch(trip_data.is_generated, @),
                      !.local_updated_at =
                          _parse_timestamp(trip_data.local_updated_at, clock),
                      !.is_synced = TRUE]],
               "trips")

\* datetime.utcnow().strftime("%Y-%m-%d"): the calls of one behaviour all fall
\* on one calendar day.
Today == "today"

\* "Create new trip".
CreateTrip(S, trip_data, user_id, clock) ==
    Uploaded(
      [S EXCEPT !.trips = Put(@, trip_data.id,
         [user_id |-> user_id,
          title |-> PyOr(trip_data.title, "Untitled Trip"),
          destination |-> PyOr(trip_data.destination, ""),
          start_date |-> PyOr(trip_data.start_date, Today),
          end_date |-> PyOr(trip_data.end_date, Today),
          budget |-> trip_data.budget,
          is_generated |-> PyOr(trip_data.is_generated, "False"),
          local_updated_at |-> _parse_timestamp(trip_data.local_updated_at, clock),
          is_synced |-> TRUE])],
      "trips")

TripConflict(trip_data, trip) ==
    [entity_type |-> "trip",
     entity_id |-> trip_data.id,
     client_updated_at |-> trip_data.local_updated_at,
     server_updated_at |-> isoformat(trip.local_updated_at),
     resolution |-> "server_wins"]

\* One iteration of "for trip_data in request.trips", try/except included.
ProcessTrip(S, trip_data, user_id, strategy, clock) ==
    LET got == Lookup(S, trip_data.id) IN
    IF got = "flush_error" THEN [S EXCEPT !.pending_bad = FALSE, !.broken = TRUE]
    ELSE IF got = "raise" THEN S
    ELSE IF trip_data.is_deleted THEN
        IF Exists(S.trips, trip_data.id) /\ S.trips[trip_data.id].user_id = user_id
        THEN Uploaded(DeleteTrip(S, trip_data.id), "trips")
        ELSE S
    ELSE IF Exists(S.trips, trip_data.id) THEN
        LET trip == S.trips[trip_data.id] IN
        IF trip.user_id # user_id THEN S
        ELSE LET should_update ==
                   _should_update(trip_data.local_updated_at,
                                  trip.local_updated_at, strategy, clock)
             IN  CASE should_update = "raise" -> S
                   [] should_update = "no" ->
                        [S EXCEPT !.conflicts = Append(@, TripConflict(trip_data, trip))]
                   [] OTHER -> UpdateTrip(S, trip_data, clock)
    ELSE CreateTrip(S, trip_data, user_id, clock)

-----------------------------------------------------------------------------
(* Days (sync.py 365-419).  No conflict entry is appended for a day.       *)

\* The parent check without "trip.user_id == current_user.id": any existing
\* trip would then pass it.
OwnsTripOfAnyone(S, trip_id, user_id) == Exists(S.trips, trip_id)

\* "trip and trip.user_id == current_user.id" for session.get(Trip, trip_id).
OwnsTrip(S, trip_id, user_id) ==
    Exists(S.trips, trip_id) /\ S.trips[trip_id].user_id = user_id

\* The update of a day that also takes the trip_id of the incoming record.
UpdateDayTakingParent(S, day_data, clock) ==
    Uploaded(
      [S EXCEPT !.days[day_data.id] =
          [@ EXCEPT
             !.trip_id = day_data.trip_id,
             !.day_number = Patch(day_data.day_number, @),
             !.date = Patch(day_data.date, @),
             !.title = Patch(day_data.title, @),
             !.local_updated_at = _parse_timestamp(day_data.local_updated_at, clock),
             !.is_synced = TRUE]],
      "days")

UpdateDay(S, day_data, clock) ==
    Uploaded(
      [S EXCEPT !.days[day_data.id] =
          [@ EXCEPT
             !.day_number = Patch(day_data.day_number, @),
             !.date = Patch(day_data.date, @),
             !.title = Patch(day_data.title, @),
             !.local_updated_at = _parse_timestamp(day_data.local_updated_at, clock),
             !.is_synced = TRUE]],
      "days")

CreateDay(S, day_data, clock) ==
    Uploaded(
      [S EXCEPT !.days = Put(@, day_data.id,
         [trip_id |-> day_data.trip_id,
          day_number |-> PyOr(day_data.day_number, "1"),
          date |-> PyOr(day_data.date, ""),
          title |-> PyOr(day_data.title, ""),
          local_updated_at |-> _parse_timestamp(day_data.local_updated_at, clock),
          is_synced |-> TRUE])],
      "days")

ProcessDay(S, day_data, user_id, strategy, clock) ==
    LET got == Lookup(S, day_data.id) IN
    IF got = "flush_error" THEN [S EXCEPT !.pending_bad = FALSE, !.broken = TRUE]
    ELSE IF got = "raise" THEN S
    ELSE IF day_data.is_deleted THEN
        IF Exists(S.days, day_data.id)
           /\ OwnsTrip(S, S.days[day_data.id].trip_id, user_id)
        THEN Uploaded(DeleteDay(S, day_data.id), "days")
        ELSE S
    ELSE IF Exists(S.days, day_data.id) THEN
        LET day == S.days[day_data.id] IN
        IF ~OwnsTrip(S, day.trip_id, user_id) THEN S
        ELSE IF _should_update(day_data.local_updated_at, day.local_updated_at,
                               strategy, clock) = "yes"
             THEN UpdateDay(S, day_data, clock)
             ELSE S
    ELSE IF ~IsUuid(day_data.trip_id) THEN S
    ELSE IF OwnsTrip(S, day_data.trip_id, user_id)
         THEN CreateDay(S, day_data, clock)
         ELSE S

-----------------------------------------------------------------------------
(* Activities (sync.py 422-494).  The ownership check of an update is      *)
(* nested under "if day:".  activities.time is a NOT NULL column (time:    *)
(* str, models/trip.py 52) that the creation fills with activity_data.time *)
(* as sent, None included.                                                 *)

\* A day of anybody's trip counts as the caller's.
OwnsDayOfAnyone(S, day_id, user_id) == Exists(S.days, day_id)

\* The chain activity.day_id -> day.trip_id -> trip.user_id, as the delete and
\* the creation walk it.
OwnsDay(S, day_id, user_id) ==
    Exists(S.days, day_id) /\ OwnsTrip(S, S.days[day_id].trip_id, user_id)

\* "if day: trip = ...; if not trip or trip.user_id != current_user.id: continue"
SkipsActivityUpdate(S, day_id, user_id) ==
    Exists(S.days, day_id) /\ ~OwnsTrip(S, S.days[day_id].trip_id, user_id)

UpdateActivity(S, activity_data, clock) ==
    Uploaded(
      [S EXCEPT !.activities[activity_data.id] =
          [@ EXCEPT
             !.time = Patch(activity_data.time, @),
             !.title = Patch(activity_data.title, @),
             !.description = Patch(activity_data.description, @),
             !.location = Patch(activity_data.location, @),
             !.estimated_cost = Patch(activity_data.estimated_cost, @),
             !.notes = Patch(activity_data.notes, @),
             !.is_completed = Patch(activity_data.is_completed, @),
             !.local_updated_at =
                 _parse_timestamp(activity_data.local_updated_at, clock),
             !.is_synced = TRUE]],
      "activities")

\* session.add(activity) stages the INSERT and the counter is incremented;
\* with time = None the INSERT fails when it is flushed.
CreateActivity(S, activity_data, clock) ==
    Uploaded(
      IF activity_data.time = None
      THEN [S EXCEPT !.pending_bad = TRUE]
      ELSE [S EXCEPT !.activities = Put(@, activity_data.id,
              [day_id |-> activity_data.day_id,
               time |-> activity_data.time,
               title |-> PyOr(activity_data.title, ""),
               description |-> activity_data.description,
               location |-> activity_data.location,
               estimated_cost |-> PyOr(activity_data.estimated_cost, "0.0"),
               notes |-> activity_data.notes,
               is_completed |-> PyOr(activity_data.is_completed, "False"),
               local_updated_at |->
                   _parse_timestamp(activity_data.local_updated_at, clock),
               is_synced |-> TRUE])],
      "activities")

ProcessActivity(S, activity_data, user_id, strategy, clock) ==
    LET got == Lookup(S, activity_data.id) IN
    IF got = "flush_error" THEN [S EXCEPT !.pending_bad = FALSE, !.broken = TRUE]
    ELSE IF got = "raise" THEN S
    ELSE IF activity_data.is_deleted THEN
        IF Exists(S.activities, activity_data.id)
           /\ OwnsDay(S, S.activities[activity_data.id].day_id, user_id)
        THEN Uploaded([S EXCEPT !.activities = Remove(@, {activity_data.id})],
                      "activities")
        ELSE S
    ELSE IF Exists(S.activities, activity_data.id) THEN
        LET activity == S.activities[activity_data.id] IN
        IF SkipsActivityUpdate(S, activity.day_id, user_id) THEN S
        ELSE IF _should_update(activity_data.local_updated_at,
                               activity.local_updated_at, strategy, clock) = "yes"
             THEN UpdateActivity(S, activity_data, clock)
             ELSE S
    ELSE IF ~IsUuid(activity_data.day_id) THEN S
    ELSE IF OwnsDay(S, activity_data.day_id, user_id)
         THEN CreateActivity(S, activity_data, clock)
         ELSE S

-----------------------------------------------------------------------------
(* Budget items (sync.py 497-548) and notes (sync.py 551-596).             *)

UpdateBudgetItem(S, item_data, clock) ==
    Uploaded(
      [S EXCEPT !.budget_items[item_data.id] =
          [@ EXCEPT
             !.category = Patch(item_data.category, @),
             !.amount = Patch(item_data.amount, @),
             !.note = Patch(item_data.note, @),
             !.local_updated_at = _parse_timestamp(item_data.local_updated_at, clock),
             !.is_synced = TRUE]],
      "budget_items")

CreateBudgetItem(S, item_data, clock) ==
    Uploaded(
      [S EXCEPT !.budget_items = Put(@, item_data.id,
         [trip_id |-> item_data.trip_id,
          category |-> PyOr(item_data.category, ""),
          amount |-> PyOr(item_data.amount, "0.0"),
          note |-> item_data.note,
          local_updated_at |-> _parse_timestamp(item_data.local_updated_at, clock),
          is_synced |-> TRUE])],
      "budget_items")

ProcessBudgetItem(S, item_data, user_id, strategy, clock) ==
    LET got == Lookup(S, item_data.id) IN
    IF got = "flush_error" THEN [S EXCEPT !.pending_bad = FALSE, !.broken = TRUE]
    ELSE IF got = "raise" THEN S
    ELSE IF item_data.is_deleted THEN
        IF Exists(S.budget_items, item_data.id)
           /\ OwnsTrip(S, S.budget_items[item_data.id].trip_id, user_id)
        THEN Uploaded([S EXCEPT !.budget_items = Remove(@, {item_data.id})],
                      "budget_items")
        ELSE S
    ELSE IF Exists(S.budget_items, item_data.id) THEN
        LET item == S.budget_items[item_data.id] IN
        IF ~OwnsTrip(S, item.trip_id, user_id) THEN S
        ELSE IF _should_update(item_data.local_updated_at, item.local_updated_at,
                               strategy, clock) = "yes"
             THEN UpdateBudgetItem(S, item_data, clock)
             ELSE S
    ELSE IF ~IsUuid(item_data.trip_id) THEN S
    ELSE IF OwnsTrip(S, item_data.trip_id, user_id)
         THEN CreateBudgetItem(S, item_data, clock)
         ELSE S

UpdateNote(S, note_data, clock) ==
    Uploaded(
      [S EXCEPT !.notes[note_data.id] =
          [@ EXCEPT
             !.content = Patch(note_data.content, @),
             !.local_updated_at = _parse_timestamp(note_data.local_updated_at, clock),
             !.is_synced = TRUE]],
      "notes")

CreateNote(S, note_data, clock) ==
    Uploaded(
      [S EXCEPT !.notes = Put(@, note_data.id,
         [trip_id |-> note_data.trip_id,
          content |-> PyOr(note_data.content, ""),
          local_updated_at |-> _parse_timestamp(note_data.local_updated_at, clock),
          is_synced |-> TRUE])],
      "notes")

ProcessNote(S, note_data, user_id, strategy, clock) ==
    LET got == Lookup(S, note_data.id) IN
    IF got = "flush_error" THEN [S EXCEPT !.pending_bad = FALSE, !.broken = TRUE]
    ELSE IF got = "raise" THEN S
    ELSE IF note_data.is_deleted THEN
        IF Exists(S.notes, note_data.id)
           /\ OwnsTrip(S, S.notes[note_data.id].trip_id, user_id)
        THEN Uploaded([S EXCEPT !.notes = Remove(@, {note_data.id})], "notes")
        ELSE S
    ELSE IF Exists(S.notes, note_data.id) THEN
        LET note == S.notes[note_data.id] IN
        IF ~OwnsTrip(S, note.trip_id, user_id) THEN S
        ELSE IF _should_update(note_data.local_updated_at, note.local_updated_at,
                               strategy, clock) = "yes"
             THEN UpdateNote(S, note_data, clock)
             ELSE S
    ELSE IF ~IsUuid(note_data.trip_id) THEN S
    ELSE IF OwnsTrip(S, note_data.trip_id, user_id)
         THEN CreateNote(S, note_data, clock)
         ELSE S

-----------------------------------------------------------------------------
(* The call (sync.py 275-663).                                             *)

RECURSIVE TripLoop(_, _, _, _, _)
TripLoop(S, records, user_id, strategy, clock) ==
    IF records = <<>> THEN S
    ELSE TripLoop(ProcessTrip(S, Head(records), user_id, strategy, clock),
                  Tail(records), user_id, strategy, clock)

RECURSIVE DayLoop(_, _, _, _, _)
DayLoop(S, records, user_id, strategy, clock) ==
    IF records = <<>> THEN S
    ELSE DayLoop(ProcessDay(S, Head(records), user_id, strategy, clock),
                 Tail(records), user_id, strategy, clock)

RECURSIVE ActivityLoop(_, _, _, _, _)
ActivityLoop(S, records, user_id, strategy, clock) ==
    IF records = <<>> THEN S
    ELSE ActivityLoop(ProcessActivity(S, Head(records), user_id, strategy, clock),
                      Tail(records), user_id, strategy, clock)

RECURSIVE BudgetItemLoop(_, _, _, _, _)
BudgetItemLoop(S, records, user_id, strategy, clock) ==
    IF records = <<>> THEN S
    ELSE BudgetItemLoop(ProcessBudgetItem(S, Head(records), user_id, strategy, clock),
                        Tail(records), user_id, strategy, clock)

RECURSIVE NoteLoop(_, _, _, _, _)
NoteLoop(S, records, user_id, strategy, clock) ==
    IF records = <<>> THEN S
    ELSE NoteLoop(ProcessNote(S, Head(records), user_id, strategy, clock),
                  Tail(records), user_id, strategy, clock)

\* The upload phase: the five loops in the order of the code.
Upload(tables, request, user_id, clock) ==
    LET s0 == NewSession(tables)
        s1 == TripLoop(s0, request.trips, user_id, request.conflict_resolution, clock)
        s2 == DayLoop(s1, request.days, user_id, request.conflict_resolution, clock)
        s3 == ActivityLoop(s2, request.activities, user_id,
                           request.conflict_resolution, clock)
        s4 == BudgetItemLoop(s3, request.budget_items, user_id,
                             request.conflict_resolution, clock)
    IN  NoteLoop(s4, request.notes, user_id, request.conflict_resolution, clock)

\* session.commit() raises when the flush it starts with fails or when an
\* earlier flush has failed; nothing of the call is then stored.
CommitFails(S) == S.broken \/ S.pending_bad

\* A DateTime column stores no offset: a committed row reads back naive.
Stored(tbl) ==
    [x \in DOMAIN tbl |-> [tbl[x] EXCEPT !.local_updated_at.aware = FALSE]]

Commit(S) ==
    [trips |-> Stored(S.trips), days |-> Stored(S.days),
     activities |-> Stored(S.activities),
     budget_items |-> Stored(S.budget_items), notes |-> Stored(S.notes)]

\* "last_sync = _parse_timestamp(request.last_sync_at) if request.last_sync_at
\* else None"
HasWatermark(request) == request.last_sync_at # NoTs

\* "Model.local_updated_at > last_sync", evaluated by the database on the
\* instants.
After(row, last_sync) == row.local_updated_at.t > last_sync.t

_serialize_day(id, day) ==
    [id |-> id, trip_id |-> day.trip_id, day_number |-> day.day_number,
     date |-> day.date, title |-> day.title, is_synced |-> day.is_synced,
     local_updated_at |-> isoformat(day.local_updated_at)]

_serialize_activity(id, activity) ==
    [id |-> id, day_id |-> activity.day_id, time |-> activity.time,
     title |-> activity.title, description |-> activity.description,
     location |-> activity.location, estimated_cost |-> activity.estimated_cost,
     notes |-> activity.notes, is_completed |-> activity.is_completed,
     is_synced |-> activity.is_synced,
     local_updated_at |-> isoformat(activity.local_updated_at)]

_serialize_budget_item(id, item) ==
    [id |-> id, trip_id |-> item.trip_id, category |-> item.category,
     amount |-> item.amount, note |-> item.note, is_synced |-> item.is_synced,
     local_updated_at |-> isoformat(item.local_updated_at)]

_serialize_note(id, note) ==
    [id |-> id, trip_id |-> note.trip_id, content |-> note.content,
     is_synced |-> note.is_synced,
     local_updated_at |-> isoformat(note.local_updated_at)]

\* "select(Trip).where(Trip.user_id == current_user.id,
\*                     Trip.local_updated_at > last_sync)"
UpdatedTrips(tables, user_id, last_sync) ==
    {t \in DOMAIN tables.trips :
        tables.trips[t].user_id = user_id /\ After(tables.trips[t], last_sync)}

\* _serialize_trip reads trip.preferences, which Trip does not have: the
\* list comprehension over updated_trips raises AttributeError on its first
\* element, outside any try.
SerializeTripsRaises(updated_trips) == updated_trips # {}

\* The ids of all trips, whoever owns them.
AllTripIds(tables, user_id) == DOMAIN tables.trips

UserTripIds(tables, user_id) ==
    {t \in DOMAIN tables.trips : tables.trips[t].user_id = user_id}

UserDayIds(tables, user_trip_ids) ==
    {d \in DOMAIN tables.days : tables.days[d].trip_id \in user_trip_ids}

\* The delta queries after the trips' (sync.py 612-658); the nesting under
\* "if user_trip_ids:" and "if user_day_ids:" is the nesting of the sets.
ServerData(tables, user_id, last_sync) ==
    LET user_trip_ids == UserTripIds(tables, user_id)
        user_day_ids == UserDayIds(tables, user_trip_ids)
    IN  [trips |-> {},
         days |-> {_serialize_day(d, tables.days[d]) :
                     d \in {x \in DOMAIN tables.days :
                              /\ tables.days[x].trip_id \in user_trip_ids
                              /\ After(tables.days[x], last_sync)}},
         activities |->
             {_serialize_activity(a, tables.activities[a]) :
                 a \in {x \in DOMAIN tables.activities :
                          /\ tables.activities[x].day_id \in user_day_ids
                          /\ After(tables.activities[x], last_sync)}},
         budget_items |->
             {_serialize_budget_item(b, tables.budget_items[b]) :
                 b \in {x \in DOMAIN tables.budget_items :
                          /\ tables.budget_items[x].trip_id \in user_trip_ids
                          /\ After(tables.budget_items[x], last_sync)}},
         notes |->
             {_serialize_note(n, tables.notes[n]) :
                 n \in {x \in DOMAIN tables.notes :
                          /\ tables.notes[x].trip_id \in user_trip_ids
                          /\ After(tables.notes[x], last_sync)}}]

NoServerData == [k \in Kinds |-> {}]

\* A response whose downloaded counters repeat the uploaded ones.
ResponseCountingUploadsAsDownloads(clock, S, server_data) ==
    [status |-> 200,
     sync_timestamp |-> isoformat(Naive(clock)),
     uploaded |-> S.up,
     downloaded |-> S.up,
     conflicts_resolved |-> Len(S.conflicts),
     conflicts |-> S.conflicts,
     server_data |-> server_data]

\* A response stamped when it is assembled, after the commit and the delta
\* queries.
ResponseStampedAtAssembly(clock, S, server_data) ==
    [status |-> 200,
     sync_timestamp |-> isoformat(Naive(clock + 1)),
     uploaded |-> S.up,
     downloaded |-> [k \in Kinds |-> Cardinality(server_data[k])],
     conflicts_resolved |-> Len(S.conflicts),
     conflicts |-> S.conflicts,
     server_data |-> server_data]

\* The SyncResponse of a call that returns.
Response(clock, S, server_data) ==
    [status |-> 200,
     sync_timestamp |-> isoformat(Naive(clock)),
     uploaded |-> S.up,
     downloaded |-> [k \in Kinds |-> Cardinality(server_data[k])],
     conflicts_resolved |-> Len(S.conflicts),
     conflicts |-> S.conflicts,
     server_data |-> server_data]

\* A call that raises out of the handler answers HTTP 500: no counters, no
\* conflicts, no server_data reach the client.
Failure ==
    [status |-> 500,
     sync_timestamp |-> NoTs,
     uploaded |-> [k \in Kinds |-> 0],
     downloaded |-> [k \in Kinds |-> 0],
     conflicts_resolved |-> 0,
     conflicts |-> <<>>,
     server_data |-> NoServerData]

\* The whole handler: what it leaves in the tables and what it answers.
sync_data(tables, request, user_id, clock) ==
    LET S == Upload(tables, request, user_id, clock) IN
    IF CommitFails(S) THEN [tables |-> tables, response |-> Failure]
    ELSE LET committed == Commit(S) IN
         IF ~HasWatermark(request)
         THEN [tables |-> committed, response |-> Response(clock, S, NoServerData)]
         ELSE LET last_sync == _parse_timestamp(request.last_sync_at, clock) IN
              IF SerializeTripsRaises(UpdatedTrips(committed, user_id, last_sync))
              THEN [tables |-> committed, response |-> Failure]
              ELSE [tables |-> committed,
                    response |-> Response(clock, S,
                                          ServerData(committed, user_id, last_sync))]

-----------------------------------------------------------------------------
(* The store the behaviours start from: what the fixtures of               *)
(* tests/test_sync.py build (a user's trip with a day and an activity, and *)
(* a second user), with a budget item and a note, and a trip of the second *)
(* user.  Every row is one a sync upload creates.                          *)

SeedTrip(user_id) ==
    [user_id |-> user_id, title |-> "a", destination |-> "p",
     start_date |-> "s0", end_date |-> "e0", budget |-> "2000.0",
     is_generated |-> "True", local_updated_at |-> Naive(2), is_synced |-> TRUE]

SeedTables ==
    [trips |-> [x \in {"t1", "t2"} |->
                   IF x = "t1" THEN SeedTrip("A") ELSE SeedTrip("B")],
     days |-> [x \in {"d1"} |->
                  [trip_id |-> "t1", day_number |-> "1", date |-> "s0",
                   title |-> "a", local_updated_at |-> Naive(2),
                   is_synced |-> TRUE]],
     activities |-> [x \in {"a1"} |->
                  [day_id |-> "d1", time |-> "t0", title |-> "a",
                   description |-> "m", location |-> "h",
                   estimated_cost |-> "15.0", notes |-> None,
                   is_completed |-> "False", local_updated_at |-> Naive(2),
                   is_synced |-> TRUE]],
     budget_items |-> [x \in {"b1"} |->
                  [trip_id |-> "t1", category |-> "a", amount |-> "7.0",
                   note |-> None, local_updated_at |-> Naive(2),
                   is_synced |-> TRUE]],
     notes |-> [x \in {"n1"} |->
                  [trip_id |-> "t1", content |-> "a",
                   local_updated_at |-> Naive(2), is_synced |-> TRUE]]]

-----------------------------------------------------------------------------
(* The requests of the model.                                              *)

\* The timestamps a client sends: every instant up to MaxTs without an
\* offset, the last one with a Z, and an unparseable string.
ClientTs ==
    {Ts("iso", t) : t \in 1..MaxTs} \cup {Ts("isoZ", MaxTs), Ts("bad", 0)}

\* The timestamps of the records that name an unused id.
NewTs == {Ts("iso", MaxTs), Ts("isoZ", MaxTs), Ts("bad", 0)}

Envelope(id, ts, del) == [id |-> id, local_updated_at |-> ts, is_deleted |-> del]

TripFields(title, destination, preferences) ==
    [title |-> title, destination |-> destination, start_date |-> None,
     end_date |-> None, budget |-> None, preferences |-> preferences,
     is_generated |-> None]

TripPatches == {TripFields("b", None, None), TripFields("b", None, "{}")}

TripRec(id, ts, del, fields) == Envelope(id, ts, del) @@ fields

DayRec(id, ts, del, trip_id, title) ==
    Envelope(id, ts, del) @@
    [trip_id |-> trip_id, day_number |-> None, date |-> None, title |-> title]

ActivityRec(id, ts, del, day_id, time, title) ==
    Envelope(id, ts, del) @@
    [day_id |-> day_id, time |-> time, title |-> title, description |-> None,
     location |-> None, estimated_cost |-> None, notes |-> None,
     is_completed |-> None]

BudgetItemRec(id, ts, del, trip_id, category) ==
    Envelope(id, ts, del) @@
    [trip_id |-> trip_id, category |-> category, amount |-> None, note |-> None]

NoteRec(id, ts, del, trip_id, content) ==
    Envelope(id, ts, del) @@ [trip_id |-> trip_id, content |-> content]

Request(last_sync_at, strategy, trips, days, activities, budget_items, notes) ==
    [last_sync_at |-> last_sync_at, conflict_resolution |-> strategy,
     trips |-> trips, days |-> days, activities |-> activities,
     budget_items |-> budget_items, notes |-> notes]

EmptyRequest == Request(NoTs, "newer_wins", <<>>, <<>>, <<>>, <<>>, <<>>)

\* One record of one kind, without a watermark: an upsert with every client
\* timestamp, or a tombstone.  t1, d1, a1, b1, n1 are rows of user A, t2 is a
\* trip of user B, t3, d2, a2, b2, n2 are unused ids.
TripRecords ==
    {TripRec(id, ts, FALSE, f) :
        id \in {"t1", "t2"}, ts \in ClientTs, f \in TripPatches}
    \cup {TripRec("t3", ts, FALSE, f) : ts \in NewTs, f \in TripPatches}
    \cup {TripRec(BadId, Ts("iso", MaxTs), FALSE, TripFields("b", None, None))}
    \cup {TripRec(id, Ts("iso", t), TRUE, TripFields(None, None, None)) :
              id \in {"t1", "t2", "t3", BadId}, t \in {1, MaxTs}}

DayRecords ==
    {DayRec("d1", ts, FALSE, "t1", "b") : ts \in ClientTs}
    \cup {DayRec("d2", ts, FALSE, trip_id, "b") :
              ts \in NewTs, trip_id \in {"t1", "t2", "t3"}}
    \cup {DayRec(id, Ts("iso", t), TRUE, "t1", None) :
              id \in {"d1", "d2"}, t \in {1, MaxTs}}

ActivityRecords ==
    {ActivityRec("a1", ts, FALSE, "d1", None, "b") : ts \in ClientTs}
    \cup {ActivityRec("a2", ts, FALSE, day_id, time, "b") :
              ts \in NewTs, day_id \in {"d1", "d2"}, time \in {None, "t"}}
    \cup {ActivityRec(id, Ts("iso", t), TRUE, "d1", None, None) :
              id \in {"a1", "a2"}, t \in {1, MaxTs}}

BudgetItemRecords ==
    {BudgetItemRec("b1", ts, FALSE, "t1", "b") : ts \in ClientTs}
    \cup {BudgetItemRec("b2", ts, FALSE, trip_id, "b") :
              ts \in NewTs, trip_id \in {"t1", "t2"}}
    \cup {BudgetItemRec(id, Ts("iso", t), TRUE, "t1", None) :
              id \in {"b1", "b2"}, t \in {1, MaxTs}}

NoteRecords ==
    {NoteRec("n1", ts, FALSE, "t1", "b") : ts \in ClientTs}
    \cup {NoteRec("n2", ts, FALSE, trip_id, "b") :
              ts \in NewTs, trip_id \in {"t1", "t2"}}
    \cup {NoteRec(id, Ts("iso", t), TRUE, "t1", None) :
              id \in {"n1", "n2"}, t \in {1, MaxTs}}

SingleRequestsWith(st) ==
    {Request(NoTs, st, <<r>>, <<>>, <<>>, <<>>, <<>>) : r \in TripRecords}
    \cup {Request(NoTs, st, <<>>, <<r>>, <<>>, <<>>, <<>>) : r \in DayRecords}
    \cup {Request(NoTs, st, <<>>, <<>>, <<r>>, <<>>, <<>>) : r \in ActivityRecords}
    \cup {Request(NoTs, st, <<>>, <<>>, <<>>, <<r>>, <<>>) : r \in BudgetItemRecords}
    \cup {Request(NoTs, st, <<>>, <<>>, <<>>, <<>>, <<r>>) : r \in NoteRecords}

SingleRequests == UNION {SingleRequestsWith(st) : st \in Strategies}

\* A new trip with a new day, activity, budget item and note under it, all in
\* one call (tests/test_sync.py 164-239), the activity with or without a time.
CascadeRequests ==
    {Request(NoTs, st,
             <<TripRec("t3", ts, FALSE, TripFields("b", None, None))>>,
             <<DayRec("d2", ts, FALSE, "t3", "b")>>,
             <<ActivityRec("a2", ts, FALSE, "d2", time, "b")>>,
             <<BudgetItemRec("b2", ts, FALSE, "t3", "b")>>,
             <<NoteRec("n2", ts, FALSE, "t3", "b")>>) :
        st \in Strategies, ts \in {Ts("iso", MaxTs), Ts("isoZ", MaxTs)},
        time \in {None, "t"}}

\* A record that raises, with records before and after it in the batch: a
\* malformed id, a trip patch with preferences, a Z timestamp where the
\* strategy compares it with the stored one, and a new activity without a
\* time.
FaultyTripRecords(st) ==
    {TripRec(BadId, Ts("iso", MaxTs), FALSE, TripFields("b", None, None)),
     TripRec("t1", Ts("iso", MaxTs), FALSE, TripFields("b", None, "{}"))}
    \cup (IF st = "newer_wins"
          THEN {TripRec("t1", Ts("isoZ", MaxTs), FALSE, TripFields("b", None, None))}
          ELSE {})

FaultyBatches ==
    {Request(NoTs, st[1],
             <<TripRec("t3", Ts("iso", MaxTs), FALSE, TripFields("b", None, None)),
               st[2],
               TripRec("t1", Ts("iso", MaxTs), FALSE, TripFields(None, "x", None))>>,
             <<DayRec("d1", Ts("iso", MaxTs), FALSE, "t1", "b")>>,
             <<>>, <<>>, <<>>) :
        st \in UNION {{<<x, bad>> : bad \in FaultyTripRecords(x)} :
                         x \in {"newer_wins", "client_wins"}}}
    \cup
    {Request(NoTs, st, <<>>, <<>>,
             <<ActivityRec("a2", Ts("iso", MaxTs), FALSE, "d1", None, "b"),
               ActivityRec("a1", Ts("iso", MaxTs), FALSE, "d1", None, "b")>>,
             <<>>,
             <<NoteRec("n1", Ts("iso", MaxTs), FALSE, "t1", "b")>>) :
        st \in {"newer_wins", "client_wins"}}

\* Calls with a watermark: nothing to upload, new records of one kind or two,
\* an upsert of the caller's trip or day under every strategy, a tombstone,
\* or a new day under a trip that is not the caller's.
WatermarkRequests ==
    {Request(w, "newer_wins", <<>>, <<>>, <<>>, <<>>, <<>>) : w \in ClientTs}
    \cup {Request(w, "newer_wins",
                  <<TripRec("t3", Ts("iso", MaxTs), FALSE, TripFields("b", None, None))>>,
                  <<>>, <<>>, <<>>, <<>>) : w \in ClientTs}
    \cup {Request(w, "newer_wins", <<>>,
                  <<DayRec(id, Ts("iso", MaxTs), FALSE, "t1", "b")>>,
                  <<>>, <<>>, <<>>) : w \in ClientTs, id \in {"d1", "d2"}}
    \cup {Request(w, "newer_wins", <<>>, <<>>,
                  <<ActivityRec("a2", Ts("iso", MaxTs), FALSE, "d1", "t", "b")>>,
                  <<>>, <<>>) : w \in ClientTs}
    \cup {Request(w, "newer_wins", <<>>, <<>>, <<>>,
                  <<BudgetItemRec("b2", Ts("iso", MaxTs), FALSE, "t1", "b")>>,
                  <<NoteRec("n2", Ts("iso", MaxTs), FALSE, "t1", "b")>>) :
              w \in ClientTs}
    \cup {Request(w, st,
                  <<TripRec("t1", ts, FALSE, TripFields("b", None, None))>>,
                  <<>>, <<>>, <<>>, <<>>) :
              w \in {Ts("iso", 1), Ts("iso", MaxTs)}, st \in Strategies,
              ts \in {Ts("iso", 1), Ts("iso", MaxTs)}}
    \cup {Request(w, st, <<>>,
                  <<DayRec("d1", ts, FALSE, "t1", "b")>>,
                  <<>>, <<>>, <<>>) :
              w \in {Ts("iso", 1), Ts("iso", MaxTs)}, st \in Strategies,
              ts \in {Ts("iso", 1), Ts("iso", MaxTs)}}
    \cup {Request(w, "newer_wins",
                  <<TripRec(id, Ts("iso", MaxTs), TRUE, TripFields(None, None, None))>>,
                  <<>>, <<>>, <<>>, <<>>) :
              w \in {Ts("iso", 1), Ts("iso", MaxTs)}, id \in {"t1", "t2", "t3"}}
    \cup {Request(w, "newer_wins", <<>>,
                  <<DayRec(id, Ts("iso", MaxTs), TRUE, "t1", None)>>,
                  <<>>, <<>>, <<>>) :
              w \in {Ts("iso", 1), Ts("iso", MaxTs)}, id \in {"d1", "d2"}}
    \cup {Request(w, "newer_wins", <<>>,
                  <<DayRec("d2", Ts("iso", MaxTs), FALSE, trip_id, "b")>>,
                  <<>>, <<>>, <<>>) :
              w \in {Ts("iso", 1), Ts("iso", MaxTs)}, trip_id \in {"t2", "t3"}}

\* A tombstone for the trip t1 or the day d1 and, in the same call, updates
\* of rows under it and new rows that name it.
ParentTombstoneRequests ==
    {Request(NoTs, st,
             <<TripRec("t1", Ts("iso", MaxTs), TRUE, TripFields(None, None, None))>>,
             <<DayRec("d1", Ts("iso", MaxTs), FALSE, "t1", "b"),
               DayRec("d2", Ts("iso", MaxTs), FALSE, "t1", "b")>>,
             <<ActivityRec("a2", Ts("iso", MaxTs), FALSE, "d1", "t", "b")>>,
             <<BudgetItemRec("b2", Ts("iso", MaxTs), FALSE, "t1", "b")>>,
             <<NoteRec("n1", Ts("iso", MaxTs), FALSE, "t1", "b")>>) :
        st \in {"newer_wins", "client_wins"}}
    \cup
    {Request(NoTs, st, <<>>,
             <<DayRec("d1", Ts("iso", MaxTs), TRUE, "t1", None)>>,
             <<ActivityRec("a1", Ts("iso", MaxTs), FALSE, "d1", None, "b"),
               ActivityRec("a2", Ts("iso", MaxTs), FALSE, "d1", "t", "b")>>,
             <<>>, <<>>) :
        st \in {"newer_wins", "client_wins"}}

\* An update of a stored row that names another parent than the stored one
\* (a trip of user B, an id that is not stored), and a day that is deleted,
\* by its own tombstone or by its trip's, and created again under a new trip
\* in the same call.
ReparentRequests ==
    UNION {
      {Request(NoTs, st, <<>>,
               <<DayRec("d1", Ts("iso", MaxTs), FALSE, trip_id, "b")>>,
               <<>>, <<>>, <<>>) : trip_id \in {"t2", "t3"}}
      \cup
      {Request(NoTs, st, <<>>, <<>>,
               <<ActivityRec("a1", Ts("iso", MaxTs), FALSE, "d2", "t", "b")>>,
               <<>>, <<>>),
       Request(NoTs, st, <<>>, <<>>, <<>>,
               <<BudgetItemRec("b1", Ts("iso", MaxTs), FALSE, "t2", "b")>>,
               <<NoteRec("n1", Ts("iso", MaxTs), FALSE, "t2", "b")>>),
       Request(NoTs, st,
               <<TripRec("t3", Ts("iso", MaxTs), FALSE, TripFields("b", None, None))>>,
               <<DayRec("d1", Ts("iso", MaxTs), TRUE, "t1", None),
                 DayRec("d1", Ts("iso", MaxTs), FALSE, "t3", "b")>>,
               <<>>, <<>>, <<>>),
       Request(NoTs, st,
               <<TripRec("t3", Ts("iso", MaxTs), FALSE, TripFields("b", None, None)),
                 TripRec("t1", Ts("iso", MaxTs), TRUE, TripFields(None, None, None))>>,
               <<DayRec("d1", Ts("iso", MaxTs), FALSE, "t3", "b")>>,
               <<>>, <<>>, <<>>)} :
        st \in {"newer_wins", "client_wins"}}

\* The timestamps of two records with one id in one batch: equal, the second
\* newer, the second older, and with a Z suffix on one or on both.
DuplicateTs ==
    {<<Ts("iso", MaxTs), Ts("iso", MaxTs)>>,
     <<Ts("iso", 1), Ts("iso", MaxTs)>>,
     <<Ts("iso", MaxTs), Ts("iso", 1)>>,
     <<Ts("isoZ", 1), Ts("iso", MaxTs)>>,
     <<Ts("isoZ", 1), Ts("isoZ", MaxTs)>>}

\* Two records that are no tombstones with the same unused id in one batch,
\* the parent a row of user A.
DuplicateRequests ==
    UNION {
      {Request(NoTs, st,
               <<TripRec("t3", ts[1], FALSE, TripFields("b", None, None)),
                 TripRec("t3", ts[2], FALSE, TripFields("c", None, None))>>,
               <<>>, <<>>, <<>>, <<>>),
       Request(NoTs, st, <<>>,
               <<DayRec("d2", ts[1], FALSE, "t1", "b"),
                 DayRec("d2", ts[2], FALSE, "t1", "c")>>,
               <<>>, <<>>, <<>>),
       Request(NoTs, st, <<>>, <<>>,
               <<ActivityRec("a2", ts[1], FALSE, "d1", "t", "b"),
                 ActivityRec("a2", ts[2], FALSE, "d1", "t", "c")>>,
               <<>>, <<>>),
       Request(NoTs, st, <<>>, <<>>,
               <<ActivityRec("a2", ts[1], FALSE, "d1", None, "b"),
                 ActivityRec("a2", ts[2], FALSE, "d1", "t", "c")>>,
               <<>>, <<>>),
       Request(NoTs, st, <<>>, <<>>, <<>>,
               <<BudgetItemRec("b2", ts[1], FALSE, "t1", "b"),
                 BudgetItemRec("b2", ts[2], FALSE, "t1", "c")>>,
               <<>>),
       Request(NoTs, st, <<>>, <<>>, <<>>, <<>>,
               <<NoteRec("n2", ts[1], FALSE, "t1", "b"),
                 NoteRec("n2", ts[2], FALSE, "t1", "c")>>)} :
        st \in Strategies, ts \in DuplicateTs}

Requests ==
    SingleRequests \cup CascadeRequests \cup FaultyBatches
    \cup WatermarkRequests \cup ParentTombstoneRequests \cup ReparentRequests
    \cup {EmptyRequest}

-----------------------------------------------------------------------------
(* The state machine.                                                      *)

NoResponse == [Failure EXCEPT !.status = 0]

Init ==
    /\ db = SeedTables
    /\ now = MaxTs
    /\ calls = 0
    /\ caller = None
    /\ req = EmptyRequest
    /\ resp = NoResponse
    /\ dbBefore = SeedTables
    /\ resent = FALSE
    /\ hist = <<>>
    /\ flight = <<>>

\* One call of POST /api/sync by user_id, from the commit of which the clock
\* has moved on.
Handle(user_id, request) ==
    \E out \in {sync_data(db, request, user_id, now)} :
    /\ db' = out.tables
    /\ resp' = out.response
    /\ dbBefore' = db
    /\ caller' = user_id
    /\ req' = request
    /\ now' = now + 1

\* A client sends a request.
SyncCall ==
    /\ calls < MaxCalls
    /\ \E user_id \in Users, request \in Requests : Handle(user_id, request)
    /\ calls' = calls + 1
    /\ resent' = FALSE
    /\ UNCHANGED <<hist, flight>>

\* The client sends the request of its last call once more (a retry of a
\* request it holds unacknowledged).
Resend ==
    /\ calls > 0
    /\ ~resent
    /\ Handle(caller, req)
    /\ calls' = calls
    /\ resent' = TRUE
    /\ UNCHANGED <<hist, flight>>

Next == SyncCall \/ Resend

Spec == Init /\ [][Next]_vars

-----------------------------------------------------------------------------
(* Sequences of calls by the devices of the two users.  A device sends as  *)
(* last_sync_at nothing, the sync_timestamp it holds from a sync that      *)
(* preceded the behaviour, or the sync_timestamp of an earlier response to *)
(* its user.                                                               *)

\* What the devices upload: nothing, a new day, note or trip, an update of
\* the day d1, an update of the note n1 with an unparseable timestamp, a
\* tombstone for d1.
SeqPayloads ==
    {EmptyRequest,
     Request(NoTs, "newer_wins", <<>>,
             <<DayRec("d2", Ts("iso", MaxTs), FALSE, "t1", "b")>>, <<>>, <<>>, <<>>),
     Request(NoTs, "newer_wins", <<>>, <<>>, <<>>, <<>>,
             <<NoteRec("n2", Ts("iso", MaxTs), FALSE, "t2", "b")>>),
     Request(NoTs, "newer_wins", <<>>,
             <<DayRec("d1", Ts("iso", MaxTs), FALSE, "t1", "b")>>, <<>>, <<>>, <<>>),
     Request(NoTs, "client_wins", <<>>, <<>>, <<>>, <<>>,
             <<NoteRec("n1", Ts("bad", 0), FALSE, "t1", "b")>>),
     Request(NoTs, "newer_wins",
             <<TripRec("t3", Ts("iso", MaxTs), FALSE, TripFields("b", None, None))>>,
             <<>>, <<>>, <<>>, <<>>),
     Request(NoTs, "newer_wins", <<>>,
             <<DayRec("d1", Ts("iso", MaxTs), TRUE, "t1", None)>>, <<>>, <<>>, <<>>)}

\* The sync_timestamps of the responses user_id has received.
ReceivedTimestamps(user_id) ==
    {hist[i].resp.sync_timestamp :
        i \in {j \in 1..Len(hist) :
                  hist[j].caller = user_id /\ hist[j].resp.status = 200}}

Watermarks(user_id) ==
    {NoTs, Ts("iso", 2)} \cup ReceivedTimestamps(user_id)

\* A call of a device of user_id, kept in the history.
SeqCall ==
    /\ calls < MaxSeq
    /\ \E user_id \in Users, payload \in SeqPayloads :
           \E w \in Watermarks(user_id) :
               /\ Handle(user_id, [payload EXCEPT !.last_sync_at = w])
               /\ hist' = Append(hist, [caller |-> user_id, req |-> req',
                                        resp |-> resp', before |-> db,
                                        after |-> db', at |-> now])
    /\ calls' = calls + 1
    /\ resent' = FALSE
    /\ UNCHANGED flight

SeqNext == SeqCall

SeqSpec == Init /\ [][SeqNext]_vars

-----------------------------------------------------------------------------
(* Two calls of one user in progress at once, each served with a session   *)
(* of its own on the shared database (database.py: a pool of connections;  *)
(* sync_data takes no lock).  A call reads and stages in its session        *)
(* (Begin) and later commits (Finish); the UPDATE of a commit writes the   *)
(* columns the call has changed onto the row as it then is.                *)

Devices == {1, 2}

RaceUser == "A"

\* The timestamps the two devices send, older and newer than the stored one.
RaceTs == {Ts("iso", t) : t \in 1..(MaxTs + 1)}

\* A device uploads an update of the trip t1 or of the day d1, under
\* newer_wins, with a title of its own.
RaceRequests(i) ==
    LET title == IF i = 1 THEN "b" ELSE "c" IN
    {Request(NoTs, "newer_wins",
             <<TripRec("t1", ts, FALSE, TripFields(title, None, None))>>,
             <<>>, <<>>, <<>>, <<>>) : ts \in RaceTs}
    \cup {Request(NoTs, "newer_wins", <<>>,
                  <<DayRec("d1", ts, FALSE, "t1", title)>>,
                  <<>>, <<>>, <<>>) : ts \in RaceTs}

Idle == [phase |-> "idle", req |-> EmptyRequest, snapshot |-> SeedTables,
         session |-> NewSession(SeedTables), readAt |-> 0, doneAt |-> 0,
         resp |-> NoResponse]

\* The UPDATE statements of a commit: for every row the session loaded and
\* still holds, the attributes the call has changed, on the row as it is now.
CommitRows(current, snapshot, session) ==
    [id \in DOMAIN current |->
        IF id \in DOMAIN snapshot /\ id \in DOMAIN session
        THEN [f \in DOMAIN current[id] |->
                 IF session[id][f] # snapshot[id][f] THEN session[id][f]
                 ELSE current[id][f]]
        ELSE current[id]]

\* A commit that writes a row only where its timestamp is newer than the
\* row's as it is now.
CommitOntoIfNewer(current, snapshot, S) ==
    [k \in Kinds |->
        [id \in DOMAIN current[k] |->
            IF /\ id \in DOMAIN S[k]
               /\ S[k][id].local_updated_at.t > current[k][id].local_updated_at.t
            THEN Stored(CommitRows(current[k], snapshot[k], S[k]))[id]
            ELSE current[k][id]]]

CommitOnto(current, snapshot, S) ==
    [k \in Kinds |-> Stored(CommitRows(current[k], snapshot[k], S[k]))]

\* The upload loops of device i's call, against the store as committed now.
Begin(i) ==
    /\ flight[i].phase = "idle"
    /\ \E request \in RaceRequests(i) :
           flight' = [flight EXCEPT ![i] =
               [phase |-> "read", req |-> request, snapshot |-> db,
                session |-> Upload(db, request, RaceUser, now),
                readAt |-> now, doneAt |-> 0, resp |-> NoResponse]]
    /\ now' = now + 1
    /\ UNCHANGED <<db, calls, caller, req, resp, dbBefore, resent, hist>>

\* session.commit() of device i's call and its response.
Finish(i) ==
    /\ flight[i].phase = "read"
    /\ db' = CommitOnto(db, flight[i].snapshot, flight[i].session)
    /\ flight' = [flight EXCEPT ![i].phase = "done", ![i].doneAt = now,
                                ![i].resp = Response(flight[i].readAt,
                                                     flight[i].session,
                                                     NoServerData)]
    /\ now' = now + 1
    /\ calls' = calls + 1
    /\ UNCHANGED <<caller, req, resp, dbBefore, resent, hist>>

RaceInit ==
    /\ db = SeedTables
    /\ now = MaxTs + 1
    /\ calls = 0
    /\ caller = RaceUser
    /\ req = EmptyRequest
    /\ resp = NoResponse
    /\ dbBefore = SeedTables
    /\ resent = FALSE
    /\ hist = <<>>
    /\ flight = [i \in Devices |-> Idle]

RaceNext == \E i \in Devices : Begin(i) \/ Finish(i)

RaceSpec == RaceInit /\ [][RaceNext]_vars

-----------------------------------------------------------------------------
(* The update of an existing activity, step by step, next to another call  *)
(* of the activity's owner that tombstones the day (READ COMMITTED: every  *)
(* SELECT of a call sees what has been committed by then).                 *)
(*   LoadActivity  session.get(Activity, id)             (sync.py 424)     *)
(*   DeleteDayBy   a whole call of user A with a tombstone for d1          *)
(*   Reconcile     session.get(Day, ..), session.get(Trip, ..), the policy *)
(*                 and the assignments                   (sync.py 436-469) *)
(*   FinishUpdate  session.commit() and the response     (sync.py 599)     *)

ChainRecords == {ActivityRec("a1", ts, FALSE, "d1", None, "b") : ts \in ClientTs}

NotLoaded ==
    [phase |-> "idle", user_id |-> None, req |-> EmptyRequest,
     loaded |-> EmptyTable, view |-> SeedTables,
     session |-> NewSession(SeedTables), resolved |-> FALSE, readAt |-> 0,
     resp |-> NoResponse]

LoadActivity ==
    /\ flight.phase = "idle"
    /\ \E user_id \in Users, st \in Strategies, r \in ChainRecords :
           /\ Exists(db.activities, r.id)
           /\ flight' = [flight EXCEPT
                  !.phase = "loaded", !.user_id = user_id,
                  !.req = Request(NoTs, st, <<>>, <<>>, <<r>>, <<>>, <<>>),
                  !.loaded = db.activities, !.readAt = now]
    /\ now' = now + 1
    /\ UNCHANGED <<db, calls, caller, req, resp, dbBefore, resent, hist>>

DeleteDayBy ==
    /\ Exists(db.days, "d1")
    /\ Handle("A", Request(NoTs, "newer_wins", <<>>,
                           <<DayRec("d1", Ts("iso", MaxTs), TRUE, "t1", None)>>,
                           <<>>, <<>>, <<>>))
    /\ calls' = calls + 1
    /\ UNCHANGED <<resent, hist, flight>>

\* The ownership chain of the loaded activity resolves to the caller in what
\* is committed now.
ChainResolves(user_id, activity_id) ==
    /\ Exists(flight.loaded, activity_id)
    /\ OwnsDay(db, flight.loaded[activity_id].day_id, user_id)

Reconcile ==
    /\ flight.phase = "loaded"
    /\ LET view == [db EXCEPT !.activities = flight.loaded]
           r == flight.req.activities[1]
       IN  flight' = [flight EXCEPT
               !.phase = "staged", !.view = view,
               !.resolved = ChainResolves(flight.user_id, r.id),
               !.session = ProcessActivity(NewSession(view), r, flight.user_id,
                                           flight.req.conflict_resolution,
                                           flight.readAt)]
    /\ now' = now + 1
    /\ UNCHANGED <<db, calls, caller, req, resp, dbBefore, resent, hist>>

\* The UPDATE of a row that is gone matches no row: the flush raises
\* StaleDataError out of session.commit().
StaleUpdate(current, S, view) ==
    \E id \in DOMAIN view.activities :
        S.activities[id] # view.activities[id] /\ ~Exists(current.activities, id)

FinishUpdate ==
    /\ flight.phase = "staged"
    /\ IF StaleUpdate(db, flight.session, flight.view)
       THEN /\ flight' = [flight EXCEPT !.phase = "done", !.resp = Failure]
            /\ db' = db
       ELSE /\ flight' = [flight EXCEPT
                   !.phase = "done",
                   !.resp = Response(flight.readAt, flight.session, NoServerData)]
            /\ db' = CommitOnto(db, [db EXCEPT !.activities = flight.loaded],
                                flight.session)
    /\ now' = now + 1
    /\ UNCHANGED <<calls, caller, req, resp, dbBefore, resent, hist>>

ChainInit ==
    /\ db = SeedTables
    /\ now = MaxTs + 1
    /\ calls = 0
    /\ caller = None
    /\ req = EmptyRequest
    /\ resp = NoResponse
    /\ dbBefore = SeedTables
    /\ resent = FALSE
    /\ hist = <<>>
    /\ flight = NotLoaded

ChainNext == LoadActivity \/ DeleteDayBy \/ Reconcile \/ FinishUpdate

ChainSpec == ChainInit /\ [][ChainNext]_vars

-----------------------------------------------------------------------------
(* One call of sync_data phase by phase (sync.py 289-663): the five loops, *)
(* session.commit(), the delta queries under "if last_sync:", and the      *)
(* return of the response.  flight.order lists the phases that have run.   *)

\* A new day and a new activity under it, with a watermark before them.
DayThenActivityRequests ==
    {Request(w, "newer_wins", <<>>,
             <<DayRec("d2", Ts("iso", MaxTs), FALSE, "t1", "b")>>,
             <<ActivityRec("a2", Ts("iso", MaxTs), FALSE, "d2", "t", "b")>>,
             <<>>, <<>>) : w \in {Ts("iso", 1), Ts("iso", 2)}}

PhaseRequests ==
    CascadeRequests \cup ParentTombstoneRequests \cup FaultyBatches
    \cup DayThenActivityRequests \cup {EmptyRequest}

\* The loops with the activities handled before the days.
NextPhaseActivitiesFirst(pc, request) ==
    CASE pc = "trips"        -> "activities"
      [] pc = "activities"   -> "days"
      [] pc = "days"         -> "budget_items"
      [] pc = "budget_items" -> "notes"
      [] pc = "notes"        -> "commit"
      [] pc = "commit"       -> IF HasWatermark(request) THEN "delta" ELSE "return"
      [] OTHER               -> "return"

\* The statement that follows a phase in the text of sync_data.
NextPhase(pc, request) ==
    CASE pc = "trips"        -> "days"
      [] pc = "days"         -> "activities"
      [] pc = "activities"   -> "budget_items"
      [] pc = "budget_items" -> "notes"
      [] pc = "notes"        -> "commit"
      [] pc = "commit"       -> IF HasWatermark(request) THEN "delta" ELSE "return"
      [] OTHER               -> "return"

NotStarted ==
    [pc |-> "idle", user_id |-> None, req |-> EmptyRequest,
     session |-> NewSession(SeedTables), readAt |-> 0, order |-> <<>>,
     commits |-> 0, server_data |-> NoServerData, resp |-> NoResponse]

\* A session that commits whenever it flushes.
FlushedAndCommitted(tables, S) == Commit(S)

\* What is committed while a loop runs: the statements the session flushes
\* stay inside its open transaction (Session(engine): no autocommit).
Flushed(tables, S) == tables

\* The phase pc has run and has left the session S.
Advance(pc, S) ==
    [flight EXCEPT !.pc = NextPhase(pc, flight.req), !.session = S,
                   !.order = Append(@, pc)]

Start ==
    /\ flight.pc = "idle"
    /\ \E user_id \in Users, request \in PhaseRequests :
           flight' = [flight EXCEPT !.pc = "trips", !.user_id = user_id,
                                    !.req = request, !.session = NewSession(db),
                                    !.readAt = now]
    /\ dbBefore' = db
    /\ UNCHANGED <<db, now, calls, caller, req, resp, resent, hist>>

ReconcileTrips ==
    /\ flight.pc = "trips"
    /\ flight' = Advance("trips",
                     TripLoop(flight.session, flight.req.trips, flight.user_id,
                              flight.req.conflict_resolution, flight.readAt))
    /\ db' = Flushed(db, flight'.session)
    /\ UNCHANGED <<now, calls, caller, req, resp, dbBefore, resent, hist>>

ReconcileDays ==
    /\ flight.pc = "days"
    /\ flight' = Advance("days",
                     DayLoop(flight.session, flight.req.days, flight.user_id,
                             flight.req.conflict_resolution, flight.readAt))
    /\ db' = Flushed(db, flight'.session)
    /\ UNCHANGED <<now, calls, caller, req, resp, dbBefore, resent, hist>>

ReconcileActivities ==
    /\ flight.pc = "activities"
    /\ flight' = Advance("activities",
                     ActivityLoop(flight.session, flight.req.activities,
                                  flight.user_id, flight.req.conflict_resolution,
                                  flight.readAt))
    /\ db' = Flushed(db, flight'.session)
    /\ UNCHANGED <<now, calls, caller, req, resp, dbBefore, resent, hist>>

ReconcileBudgetItems ==
    /\ flight.pc = "budget_items"
    /\ flight' = Advance("budget_items",
                     BudgetItemLoop(flight.session, flight.req.budget_items,
                                    flight.user_id, flight.req.conflict_resolution,
                                    flight.readAt))
    /\ db' = Flushed(db, flight'.session)
    /\ UNCHANGED <<now, calls, caller, req, resp, dbBefore, resent, hist>>

ReconcileNotes ==
    /\ flight.pc = "notes"
    /\ flight' = Advance("notes",
                     NoteLoop(flight.session, flight.req.notes, flight.user_id,
                              flight.req.conflict_resolution, flight.readAt))
    /\ db' = Flushed(db, flight'.session)
    /\ UNCHANGED <<now, calls, caller, req, resp, dbBefore, resent, hist>>

\* session.commit(): the call ends here when it raises.
CommitPhase ==
    /\ flight.pc = "commit"
    /\ IF CommitFails(flight.session)
       THEN /\ flight' = [flight EXCEPT !.pc = "done", !.resp = Failure,
                                        !.order = Append(@, "commit")]
            /\ db' = db
       ELSE /\ flight' = [Advance("commit", flight.session) EXCEPT
                              !.commits = @ + 1]
            /\ db' = Commit(flight.session)
    /\ now' = now + 1
    /\ UNCHANGED <<calls, caller, req, resp, dbBefore, resent, hist>>

\* The queries under "if last_sync:"; the serialisation of the trips can
\* raise, and the call ends here when it does.
DeltaQueries ==
    /\ flight.pc = "delta"
    /\ LET last_sync == _parse_timestamp(flight.req.last_sync_at, flight.readAt) IN
       IF SerializeTripsRaises(UpdatedTrips(db, flight.user_id, last_sync))
       THEN flight' = [flight EXCEPT !.pc = "done", !.resp = Failure,
                                     !.order = Append(@, "delta")]
       ELSE flight' = [Advance("delta", flight.session) EXCEPT
                          !.server_data = ServerData(db, flight.user_id, last_sync)]
    /\ UNCHANGED <<db, now, calls, caller, req, resp, dbBefore, resent, hist>>

\* "response.conflicts = conflicts ... return response".
Return ==
    /\ flight.pc = "return"
    /\ flight' = [flight EXCEPT
           !.pc = "done", !.order = Append(@, "return"),
           !.resp = Response(flight.readAt, flight.session, flight.server_data)]
    /\ calls' = calls + 1
    /\ UNCHANGED <<db, now, caller, req, resp, dbBefore, resent, hist>>

PhaseInit ==
    /\ db = SeedTables
    /\ now = MaxTs
    /\ calls = 0
    /\ caller = None
    /\ req = EmptyRequest
    /\ resp = NoResponse
    /\ dbBefore = SeedTables
    /\ resent = FALSE
    /\ hist = <<>>
    /\ flight = NotStarted

PhaseNext ==
    \/ Start
    \/ ReconcileTrips
    \/ ReconcileDays
    \/ ReconcileActivities
    \/ ReconcileBudgetItems
    \/ ReconcileNotes
    \/ CommitPhase
    \/ DeltaQueries
    \/ Return

PhaseSpec == PhaseInit /\ [][PhaseNext]_vars

-----------------------------------------------------------------------------
(* Updates of one row of user A, each delivered in a call of its own under *)
(* newer_wins, in any order.                                               *)

\* Timestamps newer than the stored ones.
NewerTs == {Ts("iso", MaxTs), Ts("iso", MaxTs + 1)}

\* Updates of the trip t1 and of the day d1: some send one field, some
\* another, some both.
OrderUpdates ==
    {Request(NoTs, "newer_wins", <<TripRec("t1", ts, FALSE, f)>>,
             <<>>, <<>>, <<>>, <<>>) :
        ts \in NewerTs,
        f \in {TripFields("b", None, None), TripFields(None, "x", None),
               TripFields("c", "y", None)}}
    \cup
    {Request(NoTs, "newer_wins", <<>>, <<d>>, <<>>, <<>>, <<>>) :
        d \in UNION {{DayRec("d1", ts, FALSE, "t1", "b"),
                      DayRec("d1", ts, FALSE, "t1", "c"),
                      [DayRec("d1", ts, FALSE, "t1", None) EXCEPT !.date = "s1"]} :
                        ts \in NewerTs}}

Delivered == {hist[i].req : i \in 1..Len(hist)}

\* A device of user A delivers an update that has not been delivered.
Deliver ==
    /\ calls < MaxDeliveries
    /\ \E request \in OrderUpdates \ Delivered :
           /\ Handle("A", request)
           /\ hist' = Append(hist, [caller |-> "A", req |-> req',
                                    resp |-> resp', before |-> db,
                                    after |-> db', at |-> now])
    /\ calls' = calls + 1
    /\ resent' = FALSE
    /\ UNCHANGED flight

OrderNext == Deliver

OrderSpec == Init /\ [][OrderNext]_vars

-----------------------------------------------------------------------------
(* A tombstone of a row of user A in one call, and an upload that carries  *)
(* the id of that row again in a later call.                               *)

\* One record of one kind under a strategy, without a watermark.
OneRecord(k, rec, strategy) ==
    [EmptyRequest EXCEPT ![k] = <<rec>>, !.conflict_resolution = strategy]

\* Tombstones of the rows of user A, stamped with the newest client time.
TombstoneRequests ==
    {OneRecord("trips",
               TripRec("t1", Ts("iso", MaxTs), TRUE, TripFields(None, None, None)),
               "newer_wins"),
     OneRecord("days", DayRec("d1", Ts("iso", MaxTs), TRUE, "t1", None),
               "newer_wins"),
     OneRecord("activities",
               ActivityRec("a1", Ts("iso", MaxTs), TRUE, "d1", None, None),
               "newer_wins"),
     OneRecord("budget_items",
               BudgetItemRec("b1", Ts("iso", MaxTs), TRUE, "t1", None),
               "newer_wins"),
     OneRecord("notes", NoteRec("n1", Ts("iso", MaxTs), TRUE, "t1", None),
               "newer_wins")}

\* Non-tombstone uploads of the same ids under every strategy, with a
\* timestamp older than the stored one and with the newest client time.
ReuploadRequests ==
    UNION {
      {OneRecord("trips", TripRec("t1", ts, FALSE, TripFields("b", None, None)), st),
       OneRecord("days", DayRec("d1", ts, FALSE, "t1", "b"), st),
       OneRecord("activities", ActivityRec("a1", ts, FALSE, "d1", None, "b"), st),
       OneRecord("activities", ActivityRec("a1", ts, FALSE, "d1", "t", "b"), st),
       OneRecord("budget_items", BudgetItemRec("b1", ts, FALSE, "t1", "b"), st),
       OneRecord("notes", NoteRec("n1", ts, FALSE, "t1", "b"), st)} :
         ts \in {Ts("iso", 1), Ts("iso", MaxTs)}, st \in Strategies}

\* One call of user A with a request of the given set.
CallWith(requests) ==
    /\ calls < MaxDeliveries
    /\ \E request \in requests :
           /\ Handle("A", request)
           /\ hist' = Append(hist, [caller |-> "A", req |-> req',
                                    resp |-> resp', before |-> db,
                                    after |-> db', at |-> now])
    /\ calls' = calls + 1
    /\ resent' = FALSE
    /\ UNCHANGED flight

SendTombstone == CallWith(TombstoneRequests)

Reupload == CallWith(ReuploadRequests)

ResurrectNext == SendTombstone \/ Reupload

ResurrectSpec == Init /\ [][ResurrectNext]_vars

-----------------------------------------------------------------------------
(* Calls whose batch carries two records with one unused id.               *)

\* A client sends such a batch.
DuplicateCall ==
    /\ calls < MaxCalls
    /\ \E user_id \in Users, request \in DuplicateRequests :
           Handle(user_id, request)
    /\ calls' = calls + 1
    /\ resent' = FALSE
    /\ UNCHANGED <<hist, flight>>

DuplicateNext == DuplicateCall \/ Resend

DuplicateSpec == Init /\ [][DuplicateNext]_vars

-----------------------------------------------------------------------------
(* Vocabulary of the properties.  After a call, caller, req and resp are   *)
(* the call's user, request and response, dbBefore the committed tables it *)
(* found and db the committed tables it left.                              *)

Called == calls > 0

\* The clock the last call read.
CallClock == now - 1

TotalRecords(request) ==
    Len(request.trips) + Len(request.days) + Len(request.activities)
    + Len(request.budget_items) + Len(request.notes)

\* The last call carried one record in all, of kind k.
Single(k) == Called /\ TotalRecords(req) = 1 /\ Len(req[k]) = 1

TheRec(k) == req[k][1]

\* The entity_type a conflict entry carries for a record of kind k.
EntityType(k) ==
    CASE k = "trips"        -> "trip"
      [] k = "days"         -> "day"
      [] k = "activities"   -> "activity"
      [] k = "budget_items" -> "budget_item"
      [] OTHER              -> "note"

\* The user an ownership chain resolves to, "nobody" when a link is missing.
TripOwner(tables, trip_id) ==
    IF Exists(tables.trips, trip_id) THEN tables.trips[trip_id].user_id
    ELSE "nobody"

DayOwner(tables, day_id) ==
    IF Exists(tables.days, day_id)
    THEN TripOwner(tables, tables.days[day_id].trip_id)
    ELSE "nobody"

Owner(tables, k, id) ==
    IF ~Exists(tables[k], id) THEN "nobody"
    ELSE CASE k = "trips"      -> tables.trips[id].user_id
           [] k = "days"       -> TripOwner(tables, tables.days[id].trip_id)
           [] k = "activities" -> DayOwner(tables, tables.activities[id].day_id)
           [] OTHER            -> TripOwner(tables, tables[k][id].trip_id)

\* The timestamp string is one _parse_timestamp can read.
Parseable(ts) == ts.form \in {"iso", "isoZ", "legacy"}

\* The instant the last call read in a record's local_updated_at.
ClientDt(rec) == _parse_timestamp(rec.local_updated_at, CallClock)

\* The domain fields an update of a record of kind k may set.
DomainFields(k) ==
    CASE k = "trips" -> {"title", "destination", "start_date", "end_date",
                         "budget", "is_generated"}
      [] k = "days" -> {"day_number", "date", "title"}
      [] k = "activities" -> {"time", "title", "description", "location",
                              "estimated_cost", "notes", "is_completed"}
      [] k = "budget_items" -> {"category", "amount", "note"}
      [] OTHER -> {"content"}

\* The row carries every field the record sent and the record's timestamp.
TakesIncoming(k, rec, row) ==
    /\ \A f \in DomainFields(k) : rec[f] # None => row[f] = rec[f]
    /\ row.local_updated_at.t = ClientDt(rec).t

\* The last call's record of kind k is an upsert that names a row of the
\* caller.
UpsertOfOwn(k) ==
    /\ Single(k)
    /\ ~TheRec(k).is_deleted
    /\ Owner(dbBefore, k, TheRec(k).id) = caller

\* The conflict entry the specification describes for the last call's record.
ConflictEntry(k) ==
    [entity_type |-> EntityType(k),
     entity_id |-> TheRec(k).id,
     client_updated_at |-> TheRec(k).local_updated_at,
     server_updated_at |-> isoformat(dbBefore[k][TheRec(k).id].local_updated_at),
     resolution |-> "server_wins"]

-----------------------------------------------------------------------------
(* C1. *)

\* The records of kind k in the last request that name a row whose ownership
\* chain resolves to another user.
NamesForeign(k) ==
    {i \in 1..Len(req[k]) :
        Owner(dbBefore, k, req[k][i].id) \in Users \ {caller}}

\* C1: Ownership isolation.  For every entity type, strategy and timestamp, a
\* record of the call (upsert or tombstone) that names a row owned through
\* its chain by another user leaves that row present and unchanged, and is
\* counted in no uploaded counter: each counter is at most the number of the
\* call's records of that kind that name no foreign row.
C1_OwnershipIsolation ==
    Called =>
        \A k \in Kinds :
            /\ \A i \in NamesForeign(k) :
                   /\ Exists(db[k], req[k][i].id)
                   /\ db[k][req[k][i].id] = dbBefore[k][req[k][i].id]
            /\ resp.uploaded[k] <= Len(req[k]) - Cardinality(NamesForeign(k))

\* User B sends, under client_wins, a tombstone for the activity a1 of user A:
\* the call returns, a1 is still there and nothing is counted.
C1_Witness ==
    /\ Single("activities")
    /\ caller = "B"
    /\ req.conflict_resolution = "client_wins"
    /\ TheRec("activities").id = "a1"
    /\ TheRec("activities").is_deleted
    /\ Owner(dbBefore, "activities", "a1") = "A"
    /\ resp.status = 200
    /\ resp.uploaded.activities = 0
    /\ Exists(db.activities, "a1")

-----------------------------------------------------------------------------
(* C2. *)

\* C2: for every entity type, an upsert that names a row of the caller with a
\* client timestamp at or before the row's local_updated_at, under newer_wins
\* or merge, leaves the store as it was, counts nothing, and appends exactly
\* one conflict entry with the entity type, the id, both timestamps and the
\* resolution "server_wins".
C2_ConflictForEveryType ==
    \A k \in Kinds :
        ( /\ UpsertOfOwn(k)
          /\ req.conflict_resolution \in {"newer_wins", "merge"}
          /\ Parseable(TheRec(k).local_updated_at)
          /\ DtGreater(ClientDt(TheRec(k)),
                       dbBefore[k][TheRec(k).id].local_updated_at) = "no" )
        => /\ db = dbBefore
           /\ resp.uploaded[k] = 0
           /\ resp.conflicts_resolved = 1
           /\ resp.conflicts = <<ConflictEntry(k)>>

-----------------------------------------------------------------------------
(* C3. *)

\* C3, as the code has it: under server_wins an upsert that names a row of
\* the caller is never applied, whatever the timestamps: the store is as it
\* was and nothing is counted.  In the response of a call that returns, the
\* rejected write of a Trip is recorded as one conflict entry with resolution
\* "server_wins"; for the other four types no entry is recorded.
C3_ServerWinsNeverApplies ==
    \A k \in Kinds :
        (UpsertOfOwn(k) /\ req.conflict_resolution = "server_wins")
        => /\ db = dbBefore
           /\ resp.uploaded[k] = 0
           /\ resp.status = 200 =>
                  /\ resp.conflicts =
                         IF k = "trips" THEN <<ConflictEntry(k)>> ELSE <<>>
                  /\ resp.conflicts_resolved = Len(resp.conflicts)

\* User A sends its trip t1 with the newest timestamp under server_wins: the
\* trip keeps its title and the response carries one conflict.
C3_Witness ==
    /\ UpsertOfOwn("trips")
    /\ req.conflict_resolution = "server_wins"
    /\ TheRec("trips").local_updated_at = Ts("iso", MaxTs)
    /\ TheRec("trips").title = "b"
    /\ db.trips[TheRec("trips").id].title = "a"
    /\ resp.status = 200
    /\ resp.uploaded.trips = 0
    /\ resp.conflicts_resolved = 1

\* C3, as the specification states it: under server_wins the upsert is never
\* applied and no conflict entry is recorded for it.
C3_NoConflictUnderServerWins ==
    \A k \in Kinds :
        (UpsertOfOwn(k) /\ req.conflict_resolution = "server_wins")
        => /\ db = dbBefore
           /\ resp.uploaded[k] = 0
           /\ resp.conflicts = <<>>
           /\ resp.conflicts_resolved = 0

-----------------------------------------------------------------------------
(* C4. *)

\* C4: under client_wins an upsert that names a row of the caller is always
\* applied, also with a client timestamp at or before the row's: the row takes
\* the incoming fields and timestamp, the counter of its kind is incremented,
\* and no conflict entry is appended.
C4_ClientWinsAlwaysApplies ==
    \A k \in Kinds :
        ( /\ UpsertOfOwn(k)
          /\ req.conflict_resolution = "client_wins"
          /\ Parseable(TheRec(k).local_updated_at) )
        => /\ Exists(db[k], TheRec(k).id)
           /\ TakesIncoming(k, TheRec(k), db[k][TheRec(k).id])
           /\ resp.uploaded[k] = 1
           /\ resp.conflicts = <<>>

-----------------------------------------------------------------------------
(* C5. *)

\* The parent a new record of kind k names resolves to the caller.
ParentOfCaller(k, rec) ==
    CASE k = "trips"      -> TRUE
      [] k = "activities" -> DayOwner(dbBefore, rec.day_id) = caller
      [] OTHER            -> TripOwner(dbBefore, rec.trip_id) = caller

\* C5: for every strategy and entity type, an upsert whose id names no row
\* (and whose parent, below Trip, resolves to the caller) creates the row: it
\* exists after the call, is owned by the caller through its chain, has
\* is_synced = true and the incoming timestamp; the counter of its kind is
\* incremented by one and the conflict list is unaffected.
C5_CreationForEveryType ==
    \A k \in Kinds :
        ( /\ Single(k)
          /\ ~TheRec(k).is_deleted
          /\ IsUuid(TheRec(k).id)
          /\ ~Exists(dbBefore[k], TheRec(k).id)
          /\ ParentOfCaller(k, TheRec(k))
          /\ Parseable(TheRec(k).local_updated_at) )
        => /\ Exists(db[k], TheRec(k).id)
           /\ Owner(db, k, TheRec(k).id) = caller
           /\ db[k][TheRec(k).id].is_synced
           /\ db[k][TheRec(k).id].local_updated_at.t = ClientDt(TheRec(k)).t
           /\ resp.uploaded[k] = 1
           /\ resp.conflicts = <<>>

-----------------------------------------------------------------------------
(* C6. *)

AllParseable(request) ==
    \A k \in Kinds :
        \A i \in 1..Len(request[k]) : Parseable(request[k][i].local_updated_at)

NoTombstone(request) ==
    \A k \in Kinds : \A i \in 1..Len(request[k]) : ~request[k][i].is_deleted

-----------------------------------------------------------------------------
(* C7. *)

\* The rows of kind k that belong to user_id with local_updated_at after the
\* watermark.
OwnNewer(tables, k, user_id, last_sync) ==
    {id \in DOMAIN tables[k] :
        /\ Owner(tables, k, id) = user_id
        /\ tables[k][id].local_updated_at.t > last_sync.t}

LastSync == _parse_timestamp(req.last_sync_at, CallClock)

\* C7: Download completeness.  With a watermark supplied, for each of the five
\* entity types the server_data list of the response holds every row that
\* belongs to the caller with local_updated_at strictly after the watermark,
\* once each, and no row at or before the watermark.
C7_DownloadCompleteness ==
    (Called /\ HasWatermark(req) /\ Parseable(req.last_sync_at)) =>
        \A k \in Kinds :
            /\ {r.id : r \in resp.server_data[k]} = OwnNewer(db, k, caller, LastSync)
            /\ resp.downloaded[k] = Cardinality(OwnNewer(db, k, caller, LastSync))

-----------------------------------------------------------------------------
(* C8. *)

\* C8: in a call with a watermark and uploads, the download lists hold only
\* changes the server held before the call, not what the call uploaded: no
\* downloaded row was created or changed by the call; and uploading one new
\* trip while the server holds exactly one trip of the caller after the
\* watermark gives trips_uploaded = 1, trips_downloaded = 1 and a
\* server_data.trips that holds that server trip only.
C8_DownloadExcludesOwnUploads ==
    (Called /\ HasWatermark(req) /\ Parseable(req.last_sync_at)) =>
        /\ \A k \in Kinds :
               \A r \in resp.server_data[k] :
                   /\ Exists(dbBefore[k], r.id)
                   /\ dbBefore[k][r.id] = db[k][r.id]
        /\ ( /\ Single("trips")
             /\ ~TheRec("trips").is_deleted
             /\ IsUuid(TheRec("trips").id)
             /\ ~Exists(dbBefore.trips, TheRec("trips").id)
             /\ Cardinality(OwnNewer(dbBefore, "trips", caller, LastSync)) = 1 )
           => /\ resp.uploaded.trips = 1
              /\ resp.downloaded.trips = 1
              /\ {r.id : r \in resp.server_data.trips}
                     = OwnNewer(dbBefore, "trips", caller, LastSync)

-----------------------------------------------------------------------------
(* C9. *)

\* The last call carried a new trip, a new day, budget item and note that
\* name the trip, and a new activity that names the day, none of which
\* existed.
CarriesNewTree ==
    /\ Called
    /\ \A k \in Kinds :
           /\ Len(req[k]) = 1
           /\ ~req[k][1].is_deleted
           /\ IsUuid(req[k][1].id)
           /\ ~Exists(dbBefore[k], req[k][1].id)
    /\ req.days[1].trip_id = req.trips[1].id
    /\ req.budget_items[1].trip_id = req.trips[1].id
    /\ req.notes[1].trip_id = req.trips[1].id
    /\ req.activities[1].day_id = req.days[1].id

\* C9: Cascade ordering within one call.  A call that carries a new Trip, a
\* new Day, BudgetItem and Note that reference it and a new Activity that
\* references the Day creates all of them, and each uploaded counter is
\* incremented.
C9_CascadeCreatesAll ==
    CarriesNewTree =>
        \A k \in Kinds :
            /\ Exists(db[k], req[k][1].id)
            /\ Owner(db, k, req[k][1].id) = caller
            /\ resp.uploaded[k] = 1

-----------------------------------------------------------------------------
(* C10. *)

\* The batch without the record that raises: the second trip of a batch of
\* three trips, the first activity of a batch of two.
WithoutFaulty(request) ==
    IF Len(request.trips) = 3
    THEN [request EXCEPT !.trips = <<request.trips[1], request.trips[3]>>]
    ELSE [request EXCEPT !.activities = Tail(request.activities)]

\* C10: Per-record error isolation.  When one record of a batch raises, none
\* of its fields is written, no counter is incremented for it, the call
\* succeeds, and the other records are processed and committed exactly as if
\* the failing record had not been sent: the store and the response are those
\* of the call with the batch without it.
C10_FailingRecordIsolated ==
    (Called /\ ~resent /\ req \in FaultyBatches) =>
        /\ resp.status = 200
        /\ [tables |-> db, response |-> resp]
               = sync_data(dbBefore, WithoutFaulty(req), caller, CallClock)

-----------------------------------------------------------------------------
(* C11. *)

\* The last call's record of kind k is an upsert of a row of the caller that
\* the conflict policy says to apply.
PolicyApplies(k) ==
    /\ UpsertOfOwn(k)
    /\ _should_update(TheRec(k).local_updated_at,
                      dbBefore[k][TheRec(k).id].local_updated_at,
                      req.conflict_resolution, CallClock) = "yes"

\* Every domain field the record left out has its stored value.
KeepsAbsent(k, rec, before, after) ==
    \A f \in DomainFields(k) : rec[f] = None => after[f] = before[f]

\* C11: Sparse patch.  When an update is applied to an existing record, every
\* domain field present in the incoming record overwrites the stored one,
\* every absent one keeps its stored value, local_updated_at becomes the
\* incoming value, is_synced becomes true and the uploaded counter (of the
\* response, when the call returns one) is incremented.
C11_SparsePatch ==
    \A k \in Kinds :
        (PolicyApplies(k) /\ Parseable(TheRec(k).local_updated_at))
        => /\ Exists(db[k], TheRec(k).id)
           /\ TakesIncoming(k, TheRec(k), db[k][TheRec(k).id])
           /\ KeepsAbsent(k, TheRec(k), dbBefore[k][TheRec(k).id],
                          db[k][TheRec(k).id])
           /\ db[k][TheRec(k).id].is_synced
           /\ resp.status = 200 => resp.uploaded[k] = 1

-----------------------------------------------------------------------------
(* C12. *)

NoUploads == [k \in Kinds |-> 0]

\* The last call's request without its records: the same watermark and
\* strategy, nothing to upload.
WithoutRecords(request) ==
    [request EXCEPT !.trips = <<>>, !.days = <<>>, !.activities = <<>>,
                    !.budget_items = <<>>, !.notes = <<>>]

\* What the last call would have answered had it carried no record.
ResponseWithoutRecords ==
    sync_data(dbBefore, WithoutRecords(req), caller, CallClock).response

\* The last call carried one record, a tombstone of kind k.
Tombstone(k) == Single(k) /\ TheRec(k).is_deleted

\* C12: Tombstones.  For every entity type, strategy and timestamp, a
\* tombstone that names a row of the caller deletes it (every row that is
\* left is as it was) and is counted once in the counter of its type; a
\* tombstone for an id that does not exist or belongs to another user changes
\* nothing, counts nothing, records no conflict, and the call answers what it
\* would have answered without the record: it succeeds.
C12_Tombstones ==
    \A k \in Kinds :
        Tombstone(k) =>
            IF Owner(dbBefore, k, TheRec(k).id) = caller
            THEN /\ DOMAIN db[k] = DOMAIN dbBefore[k] \ {TheRec(k).id}
                 /\ \A k2 \in Kinds : \A id \in DOMAIN db[k2] :
                        Exists(dbBefore[k2], id) /\ db[k2][id] = dbBefore[k2][id]
                 /\ ~HasWatermark(req) => resp.status = 200
                 /\ resp.status = 200
                        => /\ resp.uploaded = [NoUploads EXCEPT ![k] = 1]
                           /\ resp.conflicts = <<>>
            ELSE /\ db = dbBefore
                 /\ resp = ResponseWithoutRecords
                 /\ resp.uploaded = NoUploads
                 /\ resp.conflicts = <<>>
                 /\ ~HasWatermark(req) => resp.status = 200

\* User A sends, under server_wins, a tombstone older than its day d1: the
\* day is deleted and counted.
C12_Witness ==
    /\ Tombstone("days")
    /\ caller = "A"
    /\ req.conflict_resolution = "server_wins"
    /\ TheRec("days").id = "d1"
    /\ TheRec("days").local_updated_at = Ts("iso", 1)
    /\ Exists(dbBefore.days, "d1")
    /\ ~Exists(db.days, "d1")
    /\ resp.status = 200
    /\ resp.uploaded.days = 1

-----------------------------------------------------------------------------
(* C13. *)

\* C13: without a watermark the delta query phase is skipped: the five
\* server_data lists are empty and the five downloaded counters are zero,
\* whatever the store holds and whatever the call uploaded; with an empty
\* request every uploaded counter and conflicts_resolved are zero too and a
\* sync_timestamp is returned.
C13_NoWatermarkNoDownload ==
    (Called /\ ~HasWatermark(req)) =>
        /\ resp.server_data = NoServerData
        /\ resp.downloaded = [k \in Kinds |-> 0]
        /\ TotalRecords(req) = 0 =>
               /\ resp.status = 200
               /\ resp.uploaded = NoUploads
               /\ resp.conflicts_resolved = 0
               /\ resp.sync_timestamp = isoformat(Naive(CallClock))

\* User A uploads a new budget item without a watermark: the item is stored
\* with the newest timestamp and counted, and nothing is downloaded.
C13_Witness ==
    /\ Single("budget_items")
    /\ ~HasWatermark(req)
    /\ caller = "A"
    /\ resp.status = 200
    /\ resp.uploaded.budget_items = 1
    /\ Exists(db.budget_items, "b2")
    /\ db.budget_items["b2"].local_updated_at = Naive(MaxTs)
    /\ resp.server_data.budget_items = {}
    /\ resp.downloaded.budget_items = 0

-----------------------------------------------------------------------------
(* C14. *)

\* C14: Download scoping.  After any sequence of calls by any users, every
\* record listed in the server_data of a response belongs to the calling
\* user: a Day, BudgetItem or Note of a trip of the caller, an Activity of a
\* day of a trip of the caller (and a Trip of the caller).
C14_DownloadScoping ==
    Called =>
        \A k \in Kinds :
            \A r \in resp.server_data[k] :
                /\ Exists(db[k], r.id)
                /\ Owner(db, k, r.id) = caller

\* A response lists a record of the caller while another user holds a note
\* that is newer than the caller's watermark.
C14_Witness ==
    /\ Called
    /\ HasWatermark(req)
    /\ resp.status = 200
    /\ \E k \in Kinds : resp.server_data[k] # {}
    /\ \E id \in DOMAIN db.notes :
           /\ Owner(db, "notes", id) \in Users \ {caller}
           /\ db.notes[id].local_updated_at.t > LastSync.t

-----------------------------------------------------------------------------
(* C15. *)

\* The rows of kind k that belong to user_id.
OwnRows(tables, k, user_id) ==
    [id \in {x \in DOMAIN tables[k] : Owner(tables, k, x) = user_id} |->
        tables[k][id]]

\* The store with the rows of user_id only.
OwnPart(tables, user_id) ==
    [trips |-> OwnRows(tables, "trips", user_id),
     days |-> OwnRows(tables, "days", user_id),
     activities |-> OwnRows(tables, "activities", user_id),
     budget_items |-> OwnRows(tables, "budget_items", user_id),
     notes |-> OwnRows(tables, "notes", user_id)]

\* C15: No existence leak.  The response to a call (counters, conflicts,
\* server_data) does not depend on the records other users own: it is the
\* response the call gets on a store that holds the caller's rows only, so a
\* record whose id is taken by another user's row has the visible outcome of
\* a record whose id is unused.
C15_NoExistenceLeak ==
    Called =>
        resp = sync_data(OwnPart(dbBefore, caller), req, caller, CallClock).response

-----------------------------------------------------------------------------
\* The kind and the record device i uploads.
RaceKind(i) == IF Len(flight[i].req.trips) = 1 THEN "trips" ELSE "days"

RaceRec(i) == flight[i].req[RaceKind(i)][1]

BothDone == \A i \in Devices : flight[i].phase = "done"

\* Both calls upload the same record and each has read it before the other
\* committed.
Overlapping ==
    /\ BothDone
    /\ RaceKind(1) = RaceKind(2)
    /\ flight[1].readAt < flight[2].doneAt
    /\ flight[2].readAt < flight[1].doneAt

LastCommitter == IF flight[1].doneAt > flight[2].doneAt THEN 1 ELSE 2

\* C16: Two calls of the same caller that upload the same existing record
\* under newer_wins are not mutually excluded: when both carry a timestamp
\* newer than the stored one and each reads the record before the other
\* commits, both count the record, neither reports a conflict, and the store
\* holds the upload of the call that committed last, the older one included.
C16_SameCallerRace ==
    (/\ Overlapping
     /\ \A i \in Devices : RaceRec(i).local_updated_at.t > 2)
    => /\ \A i \in Devices :
              /\ flight[i].resp.status = 200
              /\ flight[i].resp.uploaded[RaceKind(i)] = 1
              /\ flight[i].resp.conflicts = <<>>
       /\ LET k == RaceKind(1)
              last == RaceRec(LastCommitter)
          IN /\ db[k][last.id].local_updated_at = Naive(last.local_updated_at.t)
             /\ db[k][last.id].title = last.title

\* The interleaving exists: the older upload committed last, overwrote the
\* newer one, and both were counted without a conflict.
C16_Witness ==
    /\ Overlapping
    /\ \A i \in Devices : RaceRec(i).local_updated_at.t > 2
    /\ RaceRec(LastCommitter).local_updated_at.t
           < RaceRec(3 - LastCommitter).local_updated_at.t
    /\ db[RaceKind(1)][RaceRec(1).id].local_updated_at
           = Naive(RaceRec(LastCommitter).local_updated_at.t)
    /\ \A i \in Devices :
           /\ flight[i].resp.uploaded[RaceKind(i)] = 1
           /\ flight[i].resp.conflicts = <<>>

-----------------------------------------------------------------------------
\* The call made i-th in the history followed a call of a different user.
AfterOtherCaller(i) == i > 1 /\ hist[i - 1].caller # hist[i].caller

\* The i-th call run without the other user's call before it: on the store
\* as it was before that call.
RunAlone(i) ==
    sync_data(hist[i - 1].before, hist[i].req, hist[i].caller, hist[i].at)

\* C17: Independence across callers.  A call by one user that follows a
\* call by a different user leaves the caller's records as, and answers
\* what, the same call would have on the store without the other user's
\* call; and the other user's call has not changed the caller's records.
C17_IndependenceAcrossCallers ==
    \A i \in 1..Len(hist) :
        AfterOtherCaller(i) =>
            /\ OwnPart(hist[i - 1].after, hist[i].caller)
                   = OwnPart(hist[i - 1].before, hist[i].caller)
            /\ hist[i].resp = RunAlone(i).response
            /\ OwnPart(hist[i].after, hist[i].caller)
                   = OwnPart(RunAlone(i).tables, hist[i].caller)

-----------------------------------------------------------------------------
\* C18 as stated: the sync_timestamp of a call that returns is the server's
\* time when the response is assembled, not earlier than the commit of the
\* uploads and the delta queries.
C18_StampedAtAssembly ==
    (Called /\ resp.status = 200) => resp.sync_timestamp.t >= now

\* C18: the sync_timestamp of a call that returns is the server's time when
\* the handler starts, read before any upload is processed: it is earlier
\* than the commit of the call's uploads and than its delta queries.
C18_StampedAtStart ==
    (Called /\ resp.status = 200) =>
        /\ resp.sync_timestamp = isoformat(Naive(CallClock))
        /\ resp.sync_timestamp.t < now

\* A call with a watermark that committed an upload and downloaded records,
\* stamped before its commit.
C18_Witness ==
    /\ Called
    /\ resp.status = 200
    /\ HasWatermark(req)
    /\ db # dbBefore
    /\ \E k \in Kinds : resp.downloaded[k] > 0
    /\ resp.sync_timestamp.t < now

-----------------------------------------------------------------------------
\* The j-th call of the history carried one record of kind k, not a
\* tombstone, and the server accepted it: the call returned, counted it and
\* left the row with the incoming timestamp.
Accepted(j, k) ==
    /\ hist[j].resp.status = 200
    /\ Len(hist[j].req[k]) = 1
    /\ ~hist[j].req[k][1].is_deleted
    /\ hist[j].resp.uploaded[k] = 1
    /\ Exists(hist[j].after[k], hist[j].req[k][1].id)

\* The l-th call is the next sync of the device whose previous sync was the
\* i-th call: same user, and its watermark is the sync_timestamp of that
\* response.
NextSyncOf(i, l) ==
    /\ i < l
    /\ hist[i].caller = hist[l].caller
    /\ hist[i].resp.status = 200
    /\ hist[l].req.last_sync_at = hist[i].resp.sync_timestamp

\* C19: Cross-device delivery.  Between a device's sync and its next sync
\* with the returned sync_timestamp as watermark, every create or update
\* the server accepted from another call of the same user is listed in the
\* server_data of that next sync, if the record still exists then.
C19_CrossDeviceDelivery ==
    \A i, j, l \in 1..Len(hist) : \A k \in Kinds :
        (/\ NextSyncOf(i, l)
         /\ i < j /\ j < l
         /\ hist[j].caller = hist[i].caller
         /\ Accepted(j, k)
         /\ Exists(hist[l].after[k], hist[j].req[k][1].id)
         /\ hist[l].resp.status = 200)
        => \E r \in hist[l].resp.server_data[k] : r.id = hist[j].req[k][1].id

-----------------------------------------------------------------------------
BelowTrip == {"days", "activities", "budget_items", "notes"}

\* The last call carried one record of kind k, not a tombstone, whose id
\* named no row.
UpsertOfUnknown(k) ==
    /\ Single(k)
    /\ ~TheRec(k).is_deleted
    /\ ~Exists(dbBefore[k], TheRec(k).id)

\* C20: A record below Trip that is not a tombstone and whose id names no
\* row is created only if its parent chain resolves to the caller (the trip
\* of a Day, BudgetItem or Note exists and is the caller's; the day of an
\* Activity exists and its trip is the caller's).  Otherwise nothing is
\* written, no counter moves, no conflict is recorded, and the call answers
\* what it answers without the record (HTTP 200 when no watermark is sent).
C20_CreateNeedsOwnedParent ==
    \A k \in BelowTrip :
        UpsertOfUnknown(k) =>
            /\ Exists(db[k], TheRec(k).id) => ParentOfCaller(k, TheRec(k))
            /\ ~ParentOfCaller(k, TheRec(k)) =>
                   /\ db = dbBefore
                   /\ resp = ResponseWithoutRecords
                   /\ resp.uploaded = NoUploads
                   /\ resp.conflicts = <<>>
                   /\ ~HasWatermark(req) => resp.status = 200

\* An activity with an unused id under a day of another user's trip: the
\* call returns, nothing is created or counted.
C20_Witness ==
    /\ UpsertOfUnknown("activities")
    /\ Exists(dbBefore.days, TheRec("activities").day_id)
    /\ DayOwner(dbBefore, TheRec("activities").day_id) # caller
    /\ resp.status = 200
    /\ db = dbBefore
    /\ resp.uploaded = NoUploads

-----------------------------------------------------------------------------
\* Every row below Trip names a parent row that exists.
NoOrphans(tables) ==
    /\ \A d \in DOMAIN tables.days : Exists(tables.trips, tables.days[d].trip_id)
    /\ \A b \in DOMAIN tables.budget_items :
           Exists(tables.trips, tables.budget_items[b].trip_id)
    /\ \A n \in DOMAIN tables.notes : Exists(tables.trips, tables.notes[n].trip_id)
    /\ \A a \in DOMAIN tables.activities :
           Exists(tables.days, tables.activities[a].day_id)

\* The trips the last call has removed.
DeletedTrips == DOMAIN dbBefore.trips \ DOMAIN db.trips

\* The request carries a record with the id that is no tombstone.
Reuploaded(k, id) ==
    \E i \in 1..Len(req[k]) : req[k][i].id = id /\ ~req[k][i].is_deleted

\* C21: No orphans.  In every committed state every Day, BudgetItem and Note
\* names an existing Trip and every Activity an existing Day, also after a
\* call that tombstones a Trip or Day and carries records naming it; a Trip
\* that a call deletes takes its Days, BudgetItems, Notes and the Activities
\* of those Days with it (an id of theirs is stored afterwards only when the
\* same call uploaded it again, under another parent).
C21_NoOrphans ==
    /\ NoOrphans(db)
    /\ \A t \in DeletedTrips :
           /\ DaysOfTrip(db, t) = {}
           /\ \A d \in DaysOfTrip(dbBefore, t) :
                  /\ Exists(db.days, d) => Reuploaded("days", d)
                  /\ \A a \in ActivitiesOfDays(dbBefore, {d}) :
                         Exists(db.activities, a) => Reuploaded("activities", a)
           /\ \A b \in DOMAIN db.budget_items : db.budget_items[b].trip_id # t
           /\ \A n \in DOMAIN db.notes : db.notes[n].trip_id # t

\* A call that tombstoned the trip t1 and carried rows naming it: the trip
\* and everything under it is gone and none of the rows sent was stored.
C21_Witness ==
    /\ Called
    /\ resp.status = 200
    /\ Len(req.trips) = 1 /\ req.trips[1].is_deleted
    /\ Len(req.days) = 2
    /\ "t1" \in DeletedTrips
    /\ DOMAIN db.days = {} /\ DOMAIN db.activities = {}
    /\ resp.uploaded = [NoUploads EXCEPT !["trips"] = 1]

-----------------------------------------------------------------------------
\* C22: An update of an existing Activity is applied only when its Day
\* exists and that Day's Trip exists and is the caller's.  When the chain
\* does not resolve, the Activity's Day not being found included, the record
\* is skipped: the session holds no mutation, no counter and no conflict for
\* it, and the call answers 200 with nothing uploaded.
C22_UpdateNeedsResolvedChain ==
    (flight.phase \in {"staged", "done"} /\ ~flight.resolved) =>
        /\ flight.session = NewSession(flight.view)
        /\ flight.phase = "done" =>
               /\ flight.resp.status = 200
               /\ flight.resp.uploaded = NoUploads
               /\ flight.resp.conflicts = <<>>

-----------------------------------------------------------------------------
\* The phases of a call in the order of the claim, for a request with or
\* without a watermark.
PhaseOrder(request) ==
    <<"trips", "days", "activities", "budget_items", "notes", "commit">>
    \o (IF HasWatermark(request) THEN <<"delta">> ELSE <<>>)
    \o <<"return">>

IsPrefix(s, t) == Len(s) <= Len(t) /\ \A i \in 1..Len(s) : s[i] = t[i]

Ran(phase) == \E i \in 1..Len(flight.order) : flight.order[i] = phase

-----------------------------------------------------------------------------
\* The store a call in progress leaves when all it has staged is committed.
FullyApplied ==
    Commit(Upload(dbBefore, flight.req, flight.user_id, flight.readAt))

\* C24: Atomic commit per call.  At every moment of a call the committed
\* store, which is what any other call reads, is either the store the call
\* found or that store with everything the call staged: before the commit
\* the first, after it the second, never a part.  A call that fails before
\* or at the commit leaves the store as it found it.
C24_AtomicCommit ==
    /\ flight.commits = 0 => db = dbBefore
    /\ flight.commits = 1 => db = FullyApplied
    /\ (flight.pc = "done" /\ flight.commits = 0) =>
           (flight.resp = Failure /\ db = dbBefore)

\* The call has staged a new trip and a new day under it and has yet to run
\* the other loops and to commit: the committed store shows neither.
C24_Witness ==
    /\ flight.pc = "activities"
    /\ Exists(flight.session.trips, "t3")
    /\ Exists(flight.session.days, "d2")
    /\ Len(flight.req.notes) = 1
    /\ db = dbBefore
    /\ ~Exists(db.trips, "t3")

-----------------------------------------------------------------------------
\* The conflict entries of a response that are about records of kind k.
ConflictsOf(response, k) ==
    {i \in 1..Len(response.conflicts) :
        response.conflicts[i].entity_type = EntityType(k)}

\* C25: Upload accounting.  In every response and for each entity type the
\* uploaded counter plus the conflict entries of the type do not exceed the
\* records sent and conflicts_resolved is the length of the conflicts list;
\* a record has one outcome, so a single record that was created, updated
\* or deleted (the store has changed) is counted once and has no conflict
\* entry, and one that has a conflict entry or is skipped has changed
\* nothing and is not counted.
C25_UploadAccounting ==
    (Called /\ resp.status = 200) =>
        /\ resp.conflicts_resolved = Len(resp.conflicts)
        /\ \A k \in Kinds :
               /\ resp.uploaded[k] + Cardinality(ConflictsOf(resp, k)) <= Len(req[k])
               /\ Single(k) =>
                      /\ db # dbBefore =>
                             (resp.uploaded[k] = 1 /\ resp.conflicts = <<>>)
                      /\ resp.uploaded[k] = 0 => db = dbBefore

-----------------------------------------------------------------------------
\* The last call's request under newer_wins.
UnderNewerWins == [req EXCEPT !.conflict_resolution = "newer_wins"]

\* C26: merge is policy-identical to newer_wins.  A call with
\* conflict_resolution = merge leaves the store and answers the counters and
\* conflict entries (the whole response) that the same call under newer_wins
\* leaves and answers; and under merge an upsert of a row of the caller
\* writes the fields it sends to the row when the client timestamp is
\* strictly greater than the stored one and changes nothing when it is equal
\* or smaller.
C26_MergeIsNewerWins ==
    (Called /\ req.conflict_resolution = "merge") =>
        /\ db = sync_data(dbBefore, UnderNewerWins, caller, CallClock).tables
        /\ resp = sync_data(dbBefore, UnderNewerWins, caller, CallClock).response
        /\ \A k \in Kinds :
               UpsertOfOwn(k) =>
                   LET newer == DtGreater(ClientDt(TheRec(k)),
                                          dbBefore[k][TheRec(k).id].local_updated_at)
                   IN  /\ newer = "yes" =>
                              \A f \in DomainFields(k) :
                                  TheRec(k)[f] # None =>
                                      db[k][TheRec(k).id][f] = TheRec(k)[f]
                       /\ newer = "no" => db = dbBefore

\* User A sends its day d1 under merge with the timestamp the row has: a tie,
\* nothing is applied or counted.
C26_Witness ==
    /\ UpsertOfOwn("days")
    /\ req.conflict_resolution = "merge"
    /\ TheRec("days").local_updated_at = Ts("iso", 2)
    /\ dbBefore.days[TheRec("days").id].local_updated_at = Naive(2)
    /\ resp.status = 200
    /\ resp.uploaded.days = 0
    /\ db = dbBefore

-----------------------------------------------------------------------------
\* C27: Unparseable client timestamp.  A record whose local_updated_at does
\* not parse does not fail the call, and under newer_wins it loses against
\* the caller's existing row, whose local_updated_at is a real time in the
\* past: the row is not overwritten and the record is not counted.
C27_UnparseableLoses ==
    \A k \in Kinds :
        ( /\ UpsertOfOwn(k)
          /\ req.conflict_resolution = "newer_wins"
          /\ ~Parseable(TheRec(k).local_updated_at)
          /\ dbBefore[k][TheRec(k).id].local_updated_at.t < CallClock )
        => /\ ~HasWatermark(req) => resp.status = 200
           /\ db = dbBefore
           /\ resp.uploaded[k] = 0

-----------------------------------------------------------------------------
\* The rows of kind k that the last call found and left, and for which it
\* carried no tombstone.
Continuing(k) ==
    {id \in DOMAIN dbBefore[k] \cap DOMAIN db[k] :
        \A i \in 1..Len(req[k]) : ~(req[k][i].id = id /\ req[k][i].is_deleted)}

\* C28: Timestamp monotonicity under last-writer-wins.  In a call under
\* newer_wins or merge the local_updated_at of a row that continues to exist
\* does not decrease, and a row the call has changed has a strictly greater
\* local_updated_at than before.
C28_TimestampMonotonic ==
    (Called /\ req.conflict_resolution \in {"newer_wins", "merge"}) =>
        \A k \in Kinds : \A id \in Continuing(k) :
            /\ db[k][id].local_updated_at.t >= dbBefore[k][id].local_updated_at.t
            /\ db[k][id] # dbBefore[k][id] =>
                   db[k][id].local_updated_at.t > dbBefore[k][id].local_updated_at.t

-----------------------------------------------------------------------------
\* The record a request with one record carries, and its kind.
OnlyKind(request) == CHOOSE k \in Kinds : Len(request[k]) = 1

OnlyRec(request) == request[OnlyKind(request)][1]

\* The calls i and j of the history updated the same row with distinct
\* timestamps.
SameRowDistinctTs(i, j) ==
    /\ OnlyKind(hist[i].req) = OnlyKind(hist[j].req)
    /\ OnlyRec(hist[i].req).id = OnlyRec(hist[j].req).id
    /\ OnlyRec(hist[i].req).local_updated_at.t # OnlyRec(hist[j].req).local_updated_at.t

\* The store after the two calls of the history made in the other order.
OtherOrder ==
    sync_data(sync_data(hist[1].before, hist[2].req, "A", hist[1].at).tables,
              hist[1].req, "A", hist[2].at).tables

\* C29: Order independence under newer_wins.  Two updates of one existing
\* row of the caller with distinct timestamps, delivered in two calls,
\* leave the same row (local_updated_at and every domain field) in either
\* order of delivery.
C29_OrderIndependent ==
    (Len(hist) = 2 /\ SameRowDistinctTs(1, 2)) => db = OtherOrder

-----------------------------------------------------------------------------
\* The first call of the history deleted the row its tombstone names, and
\* the second call uploads a record of the same kind with the same id that
\* is not a tombstone.
ReuploadAfterDelete ==
    /\ Len(hist) = 2
    /\ OnlyRec(hist[1].req).is_deleted
    /\ ~OnlyRec(hist[2].req).is_deleted
    /\ OnlyKind(hist[1].req) = OnlyKind(hist[2].req)
    /\ OnlyRec(hist[1].req).id = OnlyRec(hist[2].req).id
    /\ Exists(hist[1].before[OnlyKind(hist[1].req)], OnlyRec(hist[1].req).id)
    /\ ~Exists(hist[1].after[OnlyKind(hist[1].req)], OnlyRec(hist[1].req).id)

\* C30: Resurrection after delete.  After a tombstone has deleted a row, a
\* later upload by the same caller that carries the row's id and is not a
\* tombstone creates the row again under every strategy, also when its
\* local_updated_at is older than the tombstone's and than the timestamp
\* the row had.
C30_Resurrection ==
    ReuploadAfterDelete =>
        /\ Exists(db[OnlyKind(req)], OnlyRec(req).id)
        /\ resp.status = 200
        /\ resp.uploaded[OnlyKind(req)] = 1

-----------------------------------------------------------------------------
\* The request carries a tombstone for the row id of kind k.
Tombstoned(k, id) ==
    \E i \in 1..Len(req[k]) : req[k][i].id = id /\ req[k][i].is_deleted

\* The reference a row holds to its owner or parent.
ParentRef(tables, k, id) ==
    CASE k = "trips"      -> tables.trips[id].user_id
      [] k = "activities" -> tables.activities[id].day_id
      [] OTHER            -> tables[k][id].trip_id

\* The request carries a tombstone for the row or for a row above it.
DeletedByCall(k, id) ==
    \/ Tombstoned(k, id)
    \/ k \in BelowTrip \ {"activities"}
          /\ Tombstoned("trips", dbBefore[k][id].trip_id)
    \/ k = "activities"
          /\ \/ Tombstoned("days", dbBefore.activities[id].day_id)
             \/ Exists(dbBefore.days, dbBefore.activities[id].day_id)
                  /\ Tombstoned("trips",
                         dbBefore.days[dbBefore.activities[id].day_id].trip_id)

\* The rows stored before and after the call that the call did not delete.
KeptRows(k) ==
    {id \in DOMAIN dbBefore[k] \cap DOMAIN db[k] : ~DeletedByCall(k, id)}

\* C31: Ownership and parent references are frozen by sync.  A row that a
\* call leaves in the store keeps its user_id (trip), trip_id (day, budget
\* item, note) or day_id (activity), whatever parent the incoming record
\* names, and the user its ownership chain resolves to stays the same.
C31_ParentsFrozen ==
    Called =>
        \A k \in Kinds : \A id \in KeptRows(k) :
            /\ ParentRef(db, k, id) = ParentRef(dbBefore, k, id)
            /\ Owner(db, k, id) = Owner(dbBefore, k, id)

\* An update of the day d1 that names the trip of user B was applied.
C31_Witness ==
    /\ Single("days")
    /\ caller = "A"
    /\ TheRec("days").id = "d1"
    /\ TheRec("days").trip_id = "t2"
    /\ ~TheRec("days").is_deleted
    /\ resp.uploaded.days = 1
    /\ db.days["d1"].title = "b"
    /\ db.days["d1"].trip_id = "t1"

-----------------------------------------------------------------------------
\* The field in which the two records of a duplicate batch differ.
MainField(k) ==
    CASE k = "budget_items" -> "category"
      [] k = "notes"        -> "content"
      [] OTHER              -> "title"

\* The call carried, and nothing else, two records of kind k that are no
\* tombstones and have the same id, which was not stored, under a parent of
\* the caller.
DuplicateBatch(k) ==
    /\ Called
    /\ TotalRecords(req) = 2
    /\ Len(req[k]) = 2
    /\ req[k][1].id = req[k][2].id
    /\ ~req[k][1].is_deleted /\ ~req[k][2].is_deleted
    /\ ~Exists(dbBefore[k], req[k][1].id)
    /\ ~HasWatermark(req)
    /\ ParentOfCaller(k, req[k][1])

\* The verdict of the policy on the second record against the row staged by
\* the first.
SecondVerdict(k) ==
    _should_update(req[k][2].local_updated_at,
                   _parse_timestamp(req[k][1].local_updated_at, CallClock),
                   req.conflict_resolution, CallClock)

\* C32: Id uniqueness.  When one batch carries two records that are no
\* tombstones with the same unused id, the call succeeds and leaves one row
\* with that id: created by the first record, and updated by the second
\* exactly when the conflict policy accepts the second against the row the
\* first staged.
C32_DuplicateIds ==
    \A k \in Kinds :
        DuplicateBatch(k) =>
            /\ resp.status = 200
            /\ Exists(db[k], req[k][1].id)
            /\ db[k][req[k][1].id][MainField(k)] =
                   IF SecondVerdict(k) = "yes"
                   THEN req[k][2][MainField(k)]
                   ELSE req[k][1][MainField(k)]
            /\ resp.uploaded[k] = IF SecondVerdict(k) = "yes" THEN 2 ELSE 1
====
